---- MODULE Spec2Model ----
(***************************************************************************)
(* A model of the emotion-light-sound scheduling layer:                    *)
(*   - QueueManager (server/src/music_gen/music_generator.py): the two     *)
(*     pending slots, the wake event and the runner loop;                  *)
(*   - detect_faces (client/src/opencv_face/face_detection.py): the        *)
(*     frame-skipping throttle, run on executor threads;                   *)
(*   - music_urls / get_music (server/src/cloud_server_api/main.py): the   *)
(*     artifact registry and its one-shot retrieval;                       *)
(*   - the timed emotion updates of detect_faces and the callback they     *)
(*     call, the smoothing of the detections, and handle_emotion_update,   *)
(*     the server's handler of the messages the client sends;              *)
(*   - ArduinoLEDController (client/src/arduino_led/send_led.py): the      *)
(*     serial link to the LED and the calls that open, use and close it.   *)
(* Each part has its own next-state relation and specification. The timed  *)
(* updates and the smoothing follow detect_faces on the globals of the     *)
(* throttle (is_processing, emotion_buffer); handle_emotion_update calls   *)
(* add_item; the parts share no other variable.                            *)
(***************************************************************************)
EXTENDS Integers, Sequences, FiniteSets, TLC

(***************************************************************************)
(* Bounds of the model.                                                    *)
(***************************************************************************)
\* add_item calls made in one behaviour
MaxAdds == 3
\* jobs the runner hands to the generator in one behaviour
MaxGens == 3
\* detect_faces calls made in one behaviour (each on its own executor thread)
MaxFrames == 2
\* artifacts stored (createmusicurl calls) in one behaviour
MaxStores == 2
\* get_music requests made in one behaviour
MaxGets == 2
\* detect_faces calls followed through the timed updates in one behaviour
MaxEmitCalls == 2
\* quarters of a second the clock advances in one behaviour
MaxTicks == 4
\* detections smoothed in one behaviour
MaxObs == 4
\* emotion_update messages handled in one behaviour
MaxUpdates == 3
\* detections appended in one behaviour that fills emotion_buffer
MaxWindowObs == 11
\* calls of the ArduinoLEDController made in one behaviour
MaxLedCalls == 5

(***************************************************************************)
(* Values.                                                                 *)
(***************************************************************************)
\* Python's None for an Optional[str]
NoneStr == "None"
\* Optional[InstanceItem]: None is the empty tuple, an item x is <<x>>
None == <<>>
Some(x) == <<x>>
\* truthiness of an Optional[str]: None and "" are falsy
Truthy(s) == s \notin {NoneStr, ""}

\* the (sid, client_id) pairs add_item is called with: handle_emotion_update
\* passes a socket sid, receive_emotion_update a client_id (possibly empty),
\* a direct call may pass neither
Callers == { <<"s1", NoneStr>>, <<"s2", NoneStr>>, <<NoneStr, "c1">>,
             <<NoneStr, "">>, <<NoneStr, NoneStr>> }
Stages == {"post", "pre", "mid"}
\* the emotion is an opaque payload of the queue; requests are told apart by
\* their metadata (the timestamp handle_emotion_update stamps them with)
Emotions == {"happy"}

VARIABLES
    \* ---- QueueManager ----
    latest_post_item,   \* self._latest_post_item
    latest_pre_item,    \* self._latest_pre_item
    last_post_item,     \* self.last_post_item
    new_item_event,     \* self._new_item_event (asyncio.Event)
    runner_pc,          \* where the runner task is: "wait", "generate", "crashed"
    item_to_process,    \* the runner's local item_to_process
    calls,              \* number of add_item calls so far (the clock of metadata["timestamp"])
    last_call,          \* the arguments and outcome of the latest add_item call
    add_log,            \* history: the items add_item constructed, each with the number of jobs selected before it
    gen_log,            \* history: the jobs handed to MusicGenerator.generate, in order
    gen_done,           \* history: how each job handed to generate ended ("ok" or "error"), in order
    dispatch_log,       \* history: the dispatch tasks the runner created, in order
    write_log,          \* history: the writes to the two slots and to last_post_item, each with its line and whether self._queue_lock was held
    \* ---- face_detection module globals ----
    latest_frame_bytes,     \* latest_frame_bytes
    is_processing,          \* is_processing
    last_processed_image,   \* last_processed_image
    last_emotion_result,    \* last_emotion_result
    emotion_buffer,         \* emotion_buffer, a deque(maxlen=10) of (emotion, score)
    \* ---- detect_faces calls, numbered in the order they are entered ----
    df_pc,          \* where each call is
    df_arg,         \* image_bytes of each call
    df_image,       \* the call's local image (what it decoded), NoImage before
    df_label,       \* the call's local emotion_result
    df_ret,         \* what the call returned: <<>> not yet, <<image, label>>, or <<"raise">>
    df_peers,       \* history: the calls that were between marking and releasing the flag when this call found it set
    df_analyses,    \* history: how many times each call ran the analysis (lines 98-246)
    \* ---- cloud_server_api: the artifact registry ----
    music_urls,     \* music_urls: owner -> the url_hash keys of its dict (each maps to the file of that name)
    disk,           \* the files under tmp/music: url_hash -> bytes written
    st_pc,          \* where each createmusicurl call is: "idle", "insert", "done"
    st_owner,       \* owner_id of each createmusicurl call
    gm_pc,          \* where each get_music request is: "idle", "send", "cleanup", "done"
    gm_owner,       \* owner_id of each request
    gm_file,        \* file_id of each request (NoFile for a listing)
    gm_result,      \* what the request answered: <<>> not yet, or a Reply
    gm_cleanup,     \* how the request's background task ended: "none", "ok", "KeyError"
    gm_before,      \* history: the requests for the same owner and file that were over, and whether the file was stored for the owner, when this request was received
    pushed,         \* history: the "music_generated" events sent, each the sid, the file_id it carries and its place in the order of sending
    \* ---- face_detection: the timed emotion updates ----
    clock,                  \* the latest value time.time() returned, in quarters of a second
    last_pre_update_time,   \* last_pre_update_time
    last_post_update_time,  \* last_post_update_time
    emotion_update_callback,\* emotion_update_callback: "None" or the function registered
    em_pc,          \* where each detect_faces call is, as far as the timed updates go
    em_time,        \* the call's local current_time
    em_label,       \* the call's local emotion_result
    fire_log,       \* history: the timed updates that came due, in order, and what became of the callback
    \* ---- face_detection: the smoothing of one stream of detections ----
    smoothed,       \* the (emotion_result, confidence) of the latest detection
    observed,       \* history: the detections smoothed, in order, each with the sid whose frame it came from
    \* ---- cloud_server_api: handle_emotion_update ----
    update_log,     \* history: the emotion_update messages handled, and how the handler ended
    \* ---- ArduinoLEDController ----
    ser,                \* self.ser: "None" or "open" (a serial.Serial whose is_open is True)
    reading_thread,     \* self.reading_thread: "None" or "started"
    stop_reading_thread,\* self.stop_reading_thread
    serial_written,     \* what self.ser.write has sent over the link, in order
    led_log             \* history: the calls made on the controller, in order

queueVars == << latest_post_item, latest_pre_item, last_post_item, new_item_event,
                runner_pc, item_to_process, calls, last_call, add_log, gen_log,
                gen_done, dispatch_log, write_log >>

detectVars == << latest_frame_bytes, is_processing, last_processed_image,
                 last_emotion_result, emotion_buffer, df_pc, df_arg, df_image,
                 df_label, df_ret, df_peers, df_analyses >>

registryVars == << music_urls, disk, st_pc, st_owner, gm_pc, gm_owner, gm_file,
                   gm_result, gm_cleanup, gm_before, pushed >>

emitVars == << clock, last_pre_update_time, last_post_update_time,
               emotion_update_callback, em_pc, em_time, em_label, fire_log >>

smoothVars == << smoothed, observed >>

updateVars == << update_log >>

ledVars == << ser, reading_thread, stop_reading_thread, serial_written, led_log >>

\* the variables of the client side that the queue, the throttle and the
\* registry never touch
sideVars == << emitVars, smoothVars, ledVars >>

vars == << queueVars, detectVars, registryVars, emitVars, smoothVars, updateVars,
           ledVars >>

(***************************************************************************)
(* InstanceItem and its validator.                                         *)
(***************************************************************************)
\* a validator that lets every request through
check_accepts_all(sid, client_id) == TRUE

\* check_sid_or_client_id: "sid or None", "client_id or None", one must be truthy
check_sid_or_client_id(sid, client_id) == Truthy(sid) \/ Truthy(client_id)

InstanceItem(sid, client_id, stage, emotion, metadata) ==
    [ sid |-> sid, client_id |-> client_id, stage |-> stage,
      emotion |-> emotion, metadata |-> metadata ]

Owner(item) == << item.sid, item.client_id >>

(***************************************************************************)
(* QueueManager.add_item                                                   *)
(***************************************************************************)
\* the lines inside the two "async with self._queue_lock" blocks, of
\* add_item and of runner
QueueLockBlocks == { 179..185, 194..209 }
LockHeldAt(line) == \E block \in QueueLockBlocks : line \in block
\* a write to a field of the QueueManager made at a line of its source
WriteAt(field, line) == [ field |-> field, line |-> line, locked |-> LockHeldAt(line) ]

\* the writes of the locked block of add_item
WritesOfAdd(item) ==
    IF item.stage = "post" THEN { WriteAt("_latest_post_item", 180) }
    ELSE IF item.stage = "pre" THEN { WriteAt("_latest_pre_item", 182) }
    ELSE {}

\* an add_item that leaves the event as it finds it
EventAfterAddNotSet == new_item_event

\* line 185: "self._new_item_event.set()"
EventAfterAdd == TRUE

\* a post slot that keeps the pending item instead of overwriting it
PostSlotKeepsOldest(item) ==
    IF item.stage = "post" /\ latest_post_item = None
    THEN Some(item) ELSE latest_post_item

\* the value of _latest_post_item after the locked block of add_item
PostSlotAfterAdd(item) ==
    IF item.stage = "post" THEN Some(item) ELSE latest_post_item

\* a pre slot that takes every item that is not a post item
PreSlotTakesAnyOther(item) ==
    IF item.stage = "post" THEN latest_pre_item ELSE Some(item)

\* the value of _latest_pre_item after the locked block of add_item
PreSlotAfterAdd(item) ==
    IF item.stage = "post" THEN latest_pre_item
    ELSE IF item.stage = "pre" THEN Some(item) ELSE latest_pre_item

\* add_item has no suspension point: the lock is never held across an await,
\* so the whole call is one step of the event loop.
AddItem(sid, client_id, stage, emotion) ==
    /\ calls < MaxAdds
    /\ calls' = calls + 1
    /\ IF ~check_sid_or_client_id(sid, client_id)
       THEN \* the validator raises before the lock is taken
            /\ last_call' = [ sid |-> sid, client_id |-> client_id,
                              result |-> "ValidationError" ]
            /\ UNCHANGED << latest_post_item, latest_pre_item, new_item_event, add_log,
                            write_log >>
       ELSE LET item == InstanceItem(sid, client_id, stage, emotion, calls + 1) IN
            /\ latest_post_item' = PostSlotAfterAdd(item)
            /\ latest_pre_item' = PreSlotAfterAdd(item)
            /\ new_item_event' = EventAfterAdd
            /\ write_log' = write_log \cup WritesOfAdd(item)
            /\ add_log' = Append(add_log, [ item |-> item, epoch |-> Len(gen_log) ])
            /\ last_call' = [ sid |-> sid, client_id |-> client_id, result |-> "ok" ]
    /\ UNCHANGED << last_post_item, runner_pc, item_to_process, gen_log, gen_done,
                    dispatch_log >>
    /\ UNCHANGED << detectVars, registryVars, sideVars >>

(***************************************************************************)
(* QueueManager.runner                                                     *)
(***************************************************************************)
\* a selection that looks at the pre slot before the post slot
NextToRunPreFirst ==
    IF latest_pre_item # None
    THEN [ item |-> latest_pre_item, src |-> "pre",
           post |-> latest_post_item, pre |-> None, event |-> FALSE ]
    ELSE IF latest_post_item # None
    THEN [ item |-> latest_post_item, src |-> "post",
           post |-> None, pre |-> latest_pre_item, event |-> FALSE ]
    ELSE IF last_post_item # None
    THEN [ item |-> last_post_item, src |-> "replay",
           post |-> latest_post_item, pre |-> latest_pre_item, event |-> TRUE ]
    ELSE [ item |-> None, src |-> "none",
           post |-> latest_post_item, pre |-> latest_pre_item, event |-> FALSE ]

\* a selection whose replay branch forgets to set the event again
NextToRunNoRearm ==
    IF latest_post_item # None
    THEN [ item |-> latest_post_item, src |-> "post",
           post |-> None, pre |-> latest_pre_item, event |-> FALSE ]
    ELSE IF latest_pre_item # None
    THEN [ item |-> latest_pre_item, src |-> "pre",
           post |-> latest_post_item, pre |-> None, event |-> FALSE ]
    ELSE IF last_post_item # None
    THEN [ item |-> last_post_item, src |-> "replay",
           post |-> latest_post_item, pre |-> latest_pre_item, event |-> FALSE ]
    ELSE [ item |-> None, src |-> "none",
           post |-> latest_post_item, pre |-> latest_pre_item, event |-> FALSE ]

\* The locked block of runner: which item is taken, from where, and what it
\* leaves in the slots and in the event (cleared first, set again on replay).
NextToRun ==
    IF latest_post_item # None
    THEN [ item |-> latest_post_item, src |-> "post",
           post |-> None, pre |-> latest_pre_item, event |-> FALSE ]
    ELSE IF latest_pre_item # None
    THEN [ item |-> latest_pre_item, src |-> "pre",
           post |-> latest_post_item, pre |-> None, event |-> FALSE ]
    ELSE IF last_post_item # None
    THEN [ item |-> last_post_item, src |-> "replay",
           post |-> latest_post_item, pre |-> latest_pre_item, event |-> TRUE ]
    ELSE [ item |-> None, src |-> "none",
           post |-> latest_post_item, pre |-> latest_pre_item, event |-> FALSE ]

\* a runner that starts the generation and goes on without awaiting it
RunnerDoesNotAwait == "wait"

\* where the runner is once it has handed an item to asyncio.to_thread: the
\* await suspends it until the generate call has returned or raised
RunnerAtToThread == "generate"

\* the writes of the locked block of runner, by where the item was taken from
WritesOfSelect(src) ==
    IF src = "post" THEN { WriteAt("_latest_post_item", 198) }
    ELSE IF src = "pre" THEN { WriteAt("_latest_pre_item", 201) }
    ELSE {}

\* From "await self._new_item_event.wait()" returning to the await of
\* asyncio.to_thread (an item was taken) or back to the wait (none was).
RunnerSelect ==
    /\ runner_pc = "wait"
    /\ new_item_event
    /\ Len(gen_log) < MaxGens
    /\ LET sel == NextToRun IN
       /\ item_to_process' = sel.item
       /\ latest_post_item' = sel.post
       /\ latest_pre_item' = sel.pre
       /\ new_item_event' = sel.event
       /\ write_log' = write_log \cup WritesOfSelect(sel.src)
       /\ IF sel.item # None
          THEN /\ runner_pc' = RunnerAtToThread
               /\ gen_log' = Append(gen_log, [ item |-> sel.item[1], src |-> sel.src ])
          ELSE /\ runner_pc' = "wait"
               /\ UNCHANGED gen_log
    /\ UNCHANGED << last_post_item, calls, last_call, add_log, gen_done, dispatch_log >>
    /\ UNCHANGED << detectVars, registryVars, sideVars, updateVars >>

\* a runner that records every generated item, whatever its stage
LastPostAfterAnyGenerate(item) == Some(item)

\* the value of last_post_item after a generation of item returned
LastPostAfterGenerate(item) ==
    IF item.stage = "post" THEN Some(item) ELSE last_post_item

\* the write of lines 217-218, made once the await of to_thread has returned
WritesOfGenerate(item) ==
    IF item.stage = "post" THEN { WriteAt("last_post_item", 218) } ELSE {}

\* a runner that hands on no music when a post request is pending
DispatchTasksUnlessSuperseded(item, music) ==
    IF latest_post_item # None THEN << >>
    ELSE (IF Truthy(item.sid)
          THEN << [ kind |-> "notify", owner |-> item.sid, music |-> music,
                    stage |-> item.stage, emotion |-> item.emotion,
                    metadata |-> item.metadata ] >>
          ELSE << >>)
         \o
         (IF Truthy(item.client_id)
          THEN << [ kind |-> "create_url", owner |-> item.client_id, music |-> music,
                    stage |-> item.stage, emotion |-> item.emotion,
                    metadata |-> item.metadata ] >>
          ELSE << >>)

\* the tasks the runner creates for a generated item: the push to a sid,
\* the stored URL for a client_id; music is the number of the generation
DispatchTasks(item, music) ==
    (IF Truthy(item.sid)
     THEN << [ kind |-> "notify", owner |-> item.sid, music |-> music,
               stage |-> item.stage, emotion |-> item.emotion,
               metadata |-> item.metadata ] >>
     ELSE << >>)
    \o
    (IF Truthy(item.client_id)
     THEN << [ kind |-> "create_url", owner |-> item.client_id, music |-> music,
               stage |-> item.stage, emotion |-> item.emotion,
               metadata |-> item.metadata ] >>
     ELSE << >>)

\* MusicGenerator.generate returned the bytes: the rest of the loop body
GenerateOk ==
    /\ runner_pc = "generate"
    /\ last_post_item' = LastPostAfterGenerate(item_to_process[1])
    /\ new_item_event' = TRUE
    /\ dispatch_log' = dispatch_log \o DispatchTasks(item_to_process[1], Len(gen_log))
    /\ gen_done' = Append(gen_done, "ok")
    /\ write_log' = write_log \cup WritesOfGenerate(item_to_process[1])
    /\ runner_pc' = "wait"
    /\ UNCHANGED << latest_post_item, latest_pre_item, item_to_process, calls,
                    last_call, add_log, gen_log >>
    /\ UNCHANGED << detectVars, registryVars, sideVars, updateVars >>

\* a runner that makes the failed call again
RunnerRetriesAfterError == "generate"

\* what becomes of the runner task when generate raises (RuntimeError): the
\* await in runner is not inside a try, so the exception ends the task
RunnerAfterGenerateError == "crashed"

\* MusicGenerator.generate raised
GenerateFail ==
    /\ runner_pc = "generate"
    /\ runner_pc' = RunnerAfterGenerateError
    /\ gen_done' = Append(gen_done, "error")
    /\ UNCHANGED << latest_post_item, latest_pre_item, last_post_item, new_item_event,
                    item_to_process, calls, last_call, add_log, gen_log, dispatch_log,
                    write_log >>
    /\ UNCHANGED << detectVars, registryVars, sideVars, updateVars >>

QueueInit ==
    /\ latest_post_item = None
    /\ latest_pre_item = None
    /\ last_post_item = None
    /\ new_item_event = FALSE
    /\ runner_pc = "wait"
    /\ item_to_process = None
    /\ calls = 0
    /\ last_call = [ sid |-> NoneStr, client_id |-> NoneStr, result |-> "none" ]
    /\ add_log = << >>
    /\ gen_log = << >>
    /\ gen_done = << >>
    /\ dispatch_log = << >>
    /\ write_log = {}

QueueNext ==
    \/ \E c \in Callers, stage \in Stages, emotion \in Emotions :
          AddItem(c[1], c[2], stage, emotion) /\ UNCHANGED updateVars
    \/ RunnerSelect
    \/ GenerateOk
    \/ GenerateFail

(***************************************************************************)
(* face_detection.detect_faces                                             *)
(*                                                                         *)
(* handle_video_frame runs every call through loop.run_in_executor(None,   *)
(* ...), the default thread pool: calls run on threads of their own and    *)
(* interleave between any two accesses of the module globals.              *)
(***************************************************************************)
\* frames: two that decode, one that cv2.imdecode cannot decode (it returns None)
Frames == {"f1", "f2", "bad"}
Decodes(frame) == frame # "bad"
\* whether the cascade finds a face in the frame (and a red box is drawn)
HasFace(frame) == frame = "f1"
\* what DeepFace.analyze reports: (dominant_emotion, its score in 0..100)
Detections == { <<"happy", 90>>, <<"sad", 60>> }
\* capacity of emotion_buffer
BufferMaxLen == 10

FrameCalls == 1..MaxFrames
NoImage == << >>
\* the bytes cv2.imencode(".png", image) gives for the image decoded from
\* frame, with or without the red box of a detected face
Png(frame, boxed) == << frame, boxed >>
NotReturned == << >>
Raised == << "raise" >>
Returned(image, label) == << image, label >>

\* an append that leaves a full deque as it is
BufferAppendKeepsOldest(buffer, entry) ==
    IF Len(buffer) >= BufferMaxLen THEN buffer ELSE Append(buffer, entry)

\* deque.append on a deque(maxlen=BufferMaxLen)
BufferAppend(buffer, entry) ==
    LET b == Append(buffer, entry) IN
    IF Len(b) > BufferMaxLen THEN Tail(b) ELSE b

\* how many entries of buffer carry emotion
CountOf(buffer, emotion) ==
    Cardinality({ i \in DOMAIN buffer : buffer[i][1] = emotion })

\* index of the first entry of buffer carrying emotion
FirstIndex(buffer, emotion) ==
    CHOOSE i \in DOMAIN buffer :
        /\ buffer[i][1] = emotion
        /\ \A k \in DOMAIN buffer : buffer[k][1] = emotion => i <= k

\* index of the last entry of buffer carrying emotion
LastIndex(buffer, emotion) ==
    CHOOSE i \in DOMAIN buffer :
        /\ buffer[i][1] = emotion
        /\ \A k \in DOMAIN buffer : buffer[k][1] = emotion => k <= i

\* a mode whose ties go to the emotion appended last
MostCommonLatest(buffer) ==
    LET names == { buffer[i][1] : i \in DOMAIN buffer } IN
    CHOOSE e \in names :
        \A o \in names :
            \/ CountOf(buffer, e) > CountOf(buffer, o)
            \/ /\ CountOf(buffer, e) = CountOf(buffer, o)
               /\ LastIndex(buffer, e) >= LastIndex(buffer, o)

\* Counter(emotion_names).most_common(1)[0][0] of a non-empty buffer: the
\* emotion counted most often, and among equals the one counted first
MostCommon(buffer) ==
    LET names == { buffer[i][1] : i \in DOMAIN buffer } IN
    CHOOSE e \in names :
        \A o \in names :
            \/ CountOf(buffer, e) > CountOf(buffer, o)
            \/ /\ CountOf(buffer, e) = CountOf(buffer, o)
               /\ FirstIndex(buffer, e) <= FirstIndex(buffer, o)

\* the calls between "is_processing = True" and the finally that clears it
Analysing ==
    { c \in FrameCalls : df_pc[c] \in {"read", "analyze", "store_image", "store_label", "release"} }

\* line 72: the call is entered and publishes its frame
DfEnter(c, frame) ==
    /\ UNCHANGED << queueVars, registryVars, sideVars, updateVars >>
    /\ df_pc[c] = "idle"
    /\ \A b \in FrameCalls : b < c => df_pc[b] # "idle"
    /\ df_arg' = [df_arg EXCEPT ![c] = frame]
    /\ latest_frame_bytes' = frame
    /\ df_pc' = [df_pc EXCEPT ![c] = "check"]
    /\ UNCHANGED << is_processing, last_processed_image, last_emotion_result,
                    emotion_buffer, df_image, df_label, df_ret, df_peers, df_analyses >>

\* a test of is_processing that never skips
AfterBusyCheckNeverSkips(busy) == "mark"

\* where a call goes from the test of is_processing at line 75
AfterBusyCheck(busy) == IF busy THEN "skip" ELSE "mark"

\* line 75: "if is_processing"
DfCheck(c) ==
    /\ UNCHANGED << queueVars, registryVars, sideVars, updateVars >>
    /\ df_pc[c] = "check"
    /\ df_pc' = [df_pc EXCEPT ![c] = AfterBusyCheck(is_processing)]
    /\ df_peers' = [df_peers EXCEPT ![c] = IF is_processing THEN Analysing ELSE {}]
    /\ UNCHANGED << latest_frame_bytes, is_processing, last_processed_image,
                    last_emotion_result, emotion_buffer, df_arg, df_image, df_label, df_ret, df_analyses >>

\* what a skipped call returns when no image was cached: its own frame,
\* encoded, with "neutral"; imencode raises when the frame did not decode
SkipPlaceholder(frame) ==
    IF Decodes(frame) THEN Returned(Png(frame, FALSE), "neutral") ELSE Raised

\* lines 77-84: the skipped call reads last_processed_image
DfSkipImage(c) ==
    /\ UNCHANGED << queueVars, registryVars, sideVars, updateVars >>
    /\ df_pc[c] = "skip"
    /\ IF last_processed_image = NoImage
       THEN /\ df_ret' = [df_ret EXCEPT ![c] = SkipPlaceholder(df_arg[c])]
            /\ df_pc' = [df_pc EXCEPT ![c] = "done"]
            /\ UNCHANGED df_image
       ELSE /\ df_image' = [df_image EXCEPT ![c] = last_processed_image]
            /\ df_pc' = [df_pc EXCEPT ![c] = "skip_label"]
            /\ UNCHANGED df_ret
    /\ UNCHANGED << latest_frame_bytes, is_processing, last_processed_image,
                    last_emotion_result, emotion_buffer, df_arg, df_label, df_peers, df_analyses >>

\* line 78: it then reads last_emotion_result and returns the pair
DfSkipLabel(c) ==
    /\ UNCHANGED << queueVars, registryVars, sideVars, updateVars >>
    /\ df_pc[c] = "skip_label"
    /\ df_ret' = [df_ret EXCEPT ![c] = Returned(df_image[c], last_emotion_result)]
    /\ df_pc' = [df_pc EXCEPT ![c] = "done"]
    /\ UNCHANGED << latest_frame_bytes, is_processing, last_processed_image,
                    last_emotion_result, emotion_buffer, df_arg, df_image, df_label, df_peers, df_analyses >>

\* line 88: "is_processing = True"
DfMark(c) ==
    /\ UNCHANGED << queueVars, registryVars, sideVars, updateVars >>
    /\ df_pc[c] = "mark"
    /\ is_processing' = TRUE
    /\ df_pc' = [df_pc EXCEPT ![c] = "read"]
    /\ UNCHANGED << latest_frame_bytes, last_processed_image, last_emotion_result,
                    emotion_buffer, df_arg, df_image, df_label, df_ret, df_peers, df_analyses >>

\* a run that decodes the frame it was called with
FrameOfCall(c) == df_arg[c]

\* line 93: np.frombuffer(latest_frame_bytes, np.uint8) reads the global, not
\* the parameter image_bytes
FrameToDecode(c) == latest_frame_bytes

\* lines 93-94: the frame decoded is latest_frame_bytes, read now
DfRead(c) ==
    /\ UNCHANGED << queueVars, registryVars, sideVars, updateVars >>
    /\ df_pc[c] = "read"
    /\ df_image' = [df_image EXCEPT ![c] = Png(FrameToDecode(c), FALSE)]
    /\ df_pc' = [df_pc EXCEPT ![c] = "analyze"]
    /\ UNCHANGED << latest_frame_bytes, is_processing, last_processed_image,
                    last_emotion_result, emotion_buffer, df_arg, df_label, df_ret, df_peers, df_analyses >>

\* lines 98-206: the analysis went through; a face found was boxed; the
\* detection is appended and the label is the most common one of the buffer.
\* (The timed updates of lines 208-242 read the clock and write only
\* last_pre_update_time and last_post_update_time; they touch none of the
\* variables of this part and are followed by EmPreCheck to EmPostWrite.)
DfAnalyzeOk(c, detection) ==
    /\ UNCHANGED << queueVars, registryVars, sideVars, updateVars >>
    /\ df_pc[c] = "analyze"
    /\ Decodes(df_image[c][1])
    /\ LET buffer == BufferAppend(emotion_buffer, detection) IN
       /\ emotion_buffer' = buffer
       /\ df_label' = [df_label EXCEPT ![c] = MostCommon(buffer)]
    /\ df_image' = [df_image EXCEPT ![c] = Png(df_image[c][1], HasFace(df_image[c][1]))]
    /\ df_pc' = [df_pc EXCEPT ![c] = "store_image"]
    /\ df_analyses' = [df_analyses EXCEPT ![c] = @ + 1]
    /\ UNCHANGED << latest_frame_bytes, is_processing, last_processed_image,
                    last_emotion_result, df_arg, df_ret, df_peers >>

\* a call that leaves by an exception without running the finally
AfterRaiseNoFinally == "done"

\* lines 267-269: an exception raised inside the try (imencode at line 249
\* included) leaves through the finally, which clears is_processing
AfterRaise == "release"

\* lines 244-250: the analysis raised (cv2.cvtColor on a frame that did not
\* decode, or the cascade or DeepFace failing on one that did); the label is
\* "error", nothing was appended; imencode then raises on the image that
\* did not decode and the call leaves through the finally; boxed tells
\* whether the failure came after the box of a found face was drawn
DfAnalyzeError(c, boxed) ==
    /\ UNCHANGED << queueVars, registryVars, sideVars, updateVars >>
    /\ df_pc[c] = "analyze"
    /\ boxed => HasFace(df_image[c][1])
    /\ df_label' = [df_label EXCEPT ![c] = "error"]
    /\ IF Decodes(df_image[c][1])
       THEN /\ df_image' = [df_image EXCEPT ![c] = Png(df_image[c][1], boxed)]
            /\ df_pc' = [df_pc EXCEPT ![c] = "store_image"]
            /\ UNCHANGED df_ret
       ELSE /\ df_ret' = [df_ret EXCEPT ![c] = Raised]
            /\ df_pc' = [df_pc EXCEPT ![c] = AfterRaise]
            /\ UNCHANGED df_image
    /\ df_analyses' = [df_analyses EXCEPT ![c] = @ + 1]
    /\ UNCHANGED << latest_frame_bytes, is_processing, last_processed_image,
                    last_emotion_result, emotion_buffer, df_arg, df_peers >>

\* line 253: "last_processed_image = image_processed"
DfStoreImage(c) ==
    /\ UNCHANGED << queueVars, registryVars, sideVars, updateVars >>
    /\ df_pc[c] = "store_image"
    /\ last_processed_image' = df_image[c]
    /\ df_pc' = [df_pc EXCEPT ![c] = "store_label"]
    /\ UNCHANGED << latest_frame_bytes, is_processing, last_emotion_result,
                    emotion_buffer, df_arg, df_image, df_label, df_ret, df_peers, df_analyses >>

\* lines 254-265: "last_emotion_result = emotion_result", then the return
\* value is ready
DfStoreLabel(c) ==
    /\ UNCHANGED << queueVars, registryVars, sideVars, updateVars >>
    /\ df_pc[c] = "store_label"
    /\ last_emotion_result' = df_label[c]
    /\ df_ret' = [df_ret EXCEPT ![c] = Returned(df_image[c], df_label[c])]
    /\ df_pc' = [df_pc EXCEPT ![c] = "release"]
    /\ UNCHANGED << latest_frame_bytes, is_processing, last_processed_image,
                    emotion_buffer, df_arg, df_image, df_label, df_peers, df_analyses >>

\* lines 267-269: the finally clears the flag and the call is over
DfRelease(c) ==
    /\ UNCHANGED << queueVars, registryVars, sideVars, updateVars >>
    /\ df_pc[c] = "release"
    /\ is_processing' = FALSE
    /\ df_pc' = [df_pc EXCEPT ![c] = "done"]
    /\ UNCHANGED << latest_frame_bytes, last_processed_image, last_emotion_result,
                    emotion_buffer, df_arg, df_image, df_label, df_ret, df_peers, df_analyses >>

DetectInit ==
    /\ latest_frame_bytes = "None"
    /\ is_processing = FALSE
    /\ last_processed_image = NoImage
    /\ last_emotion_result = "neutral"
    /\ emotion_buffer = << >>
    /\ df_pc = [c \in FrameCalls |-> "idle"]
    /\ df_arg = [c \in FrameCalls |-> "None"]
    /\ df_image = [c \in FrameCalls |-> NoImage]
    /\ df_label = [c \in FrameCalls |-> "neutral"]
    /\ df_ret = [c \in FrameCalls |-> NotReturned]
    /\ df_peers = [c \in FrameCalls |-> {}]
    /\ df_analyses = [c \in FrameCalls |-> 0]

DetectNext ==
    \/ \E c \in FrameCalls, frame \in Frames : DfEnter(c, frame)
    \/ \E c \in FrameCalls : DfCheck(c)
    \/ \E c \in FrameCalls : DfSkipImage(c)
    \/ \E c \in FrameCalls : DfSkipLabel(c)
    \/ \E c \in FrameCalls : DfMark(c)
    \/ \E c \in FrameCalls : DfRead(c)
    \/ \E c \in FrameCalls, detection \in Detections : DfAnalyzeOk(c, detection)
    \/ \E c \in FrameCalls, boxed \in BOOLEAN : DfAnalyzeError(c, boxed)
    \/ \E c \in FrameCalls : DfStoreImage(c)
    \/ \E c \in FrameCalls : DfStoreLabel(c)
    \/ \E c \in FrameCalls : DfRelease(c)

(***************************************************************************)
(* cloud_server_api: createmusicurl, get_music, remove_file_and_entry      *)
(*                                                                         *)
(* All three run on the event loop. music_urls_lock is never held across   *)
(* an await, so each locked block runs in one step; a request is open      *)
(* from its lookup, over the sending of the FileResponse, to its           *)
(* background task.                                                        *)
(***************************************************************************)
RegOwners == {"c1", "s1"}
\* the owners that are socket sids: the runner hands their music to
\* notify_socketio_client_music_generated, that of a client_id to createmusicurl
RegSids == {"s1"}
StoreCalls == 1..MaxStores
GetCalls == 1..MaxGets
\* the url_hash of the k-th stored artifact: a sha256 over owner, timestamp
\* and metadata, taken to be different for every artifact
HashOf(k) == k
\* file_id of a request that gives none
NoFile == 0
\* the bytes generated for the k-th stored artifact
MusicBytes(k) == [ wav |-> k ]
\* the name of a file that a previous run of the server left in tmp/music
StaleHash == -1
\* tmp/music as the previous run left it
LeftInTmp == [ h \in { StaleHash } |-> MusicBytes(StaleHash) ]

NoReply == << >>
ReplyFile(bytes) == << "file", bytes >>
ReplyNotFound == << "not_found" >>
ReplyListing(hashes) == << "available_files", hashes >>
\* the FileResponse found no file to send
ReplyFailed == << "failed" >>

\* _save_file_sync, run in a thread: the file is written under its hash
StoreSave(k, owner) ==
    /\ UNCHANGED << queueVars, detectVars, sideVars, updateVars, pushed >>
    /\ st_pc[k] = "idle"
    /\ \A j \in StoreCalls : j < k => st_pc[j] # "idle"
    /\ st_owner' = [st_owner EXCEPT ![k] = owner]
    /\ disk' = [ h \in DOMAIN disk \cup { HashOf(k) } |->
                   IF h = HashOf(k) THEN MusicBytes(k) ELSE disk[h] ]
    /\ st_pc' = [st_pc EXCEPT ![k] = "insert"]
    /\ UNCHANGED << music_urls, gm_pc, gm_owner, gm_file, gm_result, gm_cleanup, gm_before >>

\* a registry that files every artifact under every owner
UrlsSharedByOwners(owner, hash) ==
    [ o \in DOMAIN music_urls \cup RegOwners |->
        (IF o \in DOMAIN music_urls THEN music_urls[o] ELSE {}) \cup { hash } ]

\* a music_urls that createmusicurl leaves as it was
UrlsWithoutInsert(owner, hash) == music_urls

\* music_urls after the locked block of createmusicurl
UrlsAfterInsert(owner, hash) ==
    [ o \in DOMAIN music_urls \cup { owner } |->
        IF o = owner
        THEN (IF o \in DOMAIN music_urls THEN music_urls[o] ELSE {}) \cup { hash }
        ELSE music_urls[o] ]

\* notify_socketio_client_music_generated, line 130: the events sent once
\* createmusicurl has returned url_hash to the task of a sid; the task of a
\* client_id is createmusicurl alone and sends nothing; seq numbers the
\* events in the order they are sent
PushedAfterInsert(owner, url_hash) ==
    IF owner \in RegSids
    THEN pushed \cup { [ to |-> owner, file_id |-> url_hash,
                         seq |-> Cardinality(pushed) + 1 ] }
    ELSE pushed

\* createmusicurl, lines 96-102: the entry is inserted under the lock; the
\* task that awaited it goes on to its emit without a suspension in between
StoreInsert(k) ==
    /\ UNCHANGED << queueVars, detectVars, sideVars, updateVars >>
    /\ st_pc[k] = "insert"
    /\ music_urls' = UrlsAfterInsert(st_owner[k], HashOf(k))
    /\ pushed' = PushedAfterInsert(st_owner[k], HashOf(k))
    /\ st_pc' = [st_pc EXCEPT ![k] = "done"]
    /\ UNCHANGED << disk, st_owner, gm_pc, gm_owner, gm_file, gm_result, gm_cleanup, gm_before >>

\* a lookup that finds the file under whatever owner it is registered
LookupAnyOwner(owner, file_id) ==
    IF \E o \in DOMAIN music_urls : file_id \in music_urls[o]
    THEN file_id ELSE NoFile

\* get_music, lines 295-297: the filepath registered for (owner, file_id);
\* the file carries the name of its hash, NoFile stands for None
Lookup(owner, file_id) ==
    IF owner \in DOMAIN music_urls /\ file_id \in music_urls[owner]
    THEN file_id ELSE NoFile

\* a listing that gives the files of every owner
ListingOfAllOwners(owner) ==
    UNION { music_urls[o] : o \in DOMAIN music_urls }

\* get_music, lines 289-293: the listing
Listing(owner) ==
    IF owner \in DOMAIN music_urls THEN music_urls[owner] ELSE {}

\* get_music up to its return: a listing, not-found, or a FileResponse with
\* remove_file_and_entry as its background task
GetMusic(g, owner, file_id) ==
    /\ UNCHANGED << queueVars, detectVars, sideVars, updateVars, pushed >>
    /\ gm_pc[g] = "idle"
    /\ \A j \in GetCalls : j < g => gm_pc[j] # "idle"
    /\ gm_owner' = [gm_owner EXCEPT ![g] = owner]
    /\ gm_file' = [gm_file EXCEPT ![g] = file_id]
    /\ gm_before' = [gm_before EXCEPT ![g] =
                        [ gets |-> { j \in GetCalls : /\ gm_pc[j] = "done"
                                                      /\ gm_owner[j] = owner
                                                      /\ gm_file[j] = file_id },
                          stored |-> \E k \in StoreCalls :
                                        /\ st_pc[k] = "done"
                                        /\ HashOf(k) = file_id
                                        /\ st_owner[k] = owner ]]
    /\ IF file_id = NoFile
       THEN /\ gm_result' = [gm_result EXCEPT ![g] = ReplyListing(Listing(owner))]
            /\ gm_pc' = [gm_pc EXCEPT ![g] = "done"]
       ELSE LET filepath == Lookup(owner, file_id) IN
            IF filepath # NoFile /\ filepath \in DOMAIN disk
            THEN /\ gm_pc' = [gm_pc EXCEPT ![g] = "send"]
                 /\ UNCHANGED gm_result
            ELSE /\ gm_result' = [gm_result EXCEPT ![g] = ReplyNotFound]
                 /\ gm_pc' = [gm_pc EXCEPT ![g] = "done"]
    /\ UNCHANGED << music_urls, disk, st_pc, st_owner, gm_cleanup >>

\* the FileResponse is sent: the file is read now; the background task runs
\* after a response that was sent
GetSend(g) ==
    /\ UNCHANGED << queueVars, detectVars, sideVars, updateVars, pushed >>
    /\ gm_pc[g] = "send"
    /\ IF gm_file[g] \in DOMAIN disk
       THEN /\ gm_result' = [gm_result EXCEPT ![g] = ReplyFile(disk[gm_file[g]])]
            /\ gm_pc' = [gm_pc EXCEPT ![g] = "cleanup"]
       ELSE /\ gm_result' = [gm_result EXCEPT ![g] = ReplyFailed]
            /\ gm_pc' = [gm_pc EXCEPT ![g] = "done"]
    /\ UNCHANGED << music_urls, disk, st_pc, st_owner, gm_owner, gm_file, gm_cleanup, gm_before >>

\* a background task that removes nothing
RemoveNothing(owner, url_hash, filepath) ==
    [ urls |-> music_urls, disk |-> disk, end |-> "ok" ]

\* remove_file_and_entry: the entry is deleted under the lock, the owner's
\* dict too when it is left empty, then the file; "if not
\* music_urls[owner_id]" raises KeyError for an owner that has no dict
RemoveFileAndEntry(owner, url_hash, filepath) ==
    LET found == owner \in DOMAIN music_urls /\ url_hash \in music_urls[owner]
        path == IF found THEN url_hash ELSE filepath
        urls1 == IF found
                 THEN [music_urls EXCEPT ![owner] = @ \ { url_hash }]
                 ELSE music_urls
    IN  IF owner \notin DOMAIN urls1
        THEN [ urls |-> urls1, disk |-> disk, end |-> "KeyError" ]
        ELSE [ urls |-> IF urls1[owner] = {}
                        THEN [ o \in DOMAIN urls1 \ { owner } |-> urls1[o] ]
                        ELSE urls1,
               disk |-> [ h \in DOMAIN disk \ { path } |-> disk[h] ],
               end |-> "ok" ]

\* the background task of a request whose FileResponse was sent
GetCleanup(g) ==
    /\ UNCHANGED << queueVars, detectVars, sideVars, updateVars, pushed >>
    /\ gm_pc[g] = "cleanup"
    /\ LET r == RemoveFileAndEntry(gm_owner[g], gm_file[g], gm_file[g]) IN
       /\ music_urls' = r.urls
       /\ disk' = r.disk
       /\ gm_cleanup' = [gm_cleanup EXCEPT ![g] = r.end]
    /\ gm_pc' = [gm_pc EXCEPT ![g] = "done"]
    /\ UNCHANGED << st_pc, st_owner, gm_owner, gm_file, gm_result, gm_before >>

\* a start that leaves tmp as it finds it
LifespanKeepsTmp(left) == [ urls |-> << >>, disk |-> left ]

\* the registry when the server starts to accept traffic: music_urls is the
\* empty dict of the module, and lifespan has removed tmp with all it held
Lifespan(left) == [ urls |-> << >>, disk |-> << >> ]

RegistryInit ==
    /\ music_urls = Lifespan(LeftInTmp).urls
    /\ disk = Lifespan(LeftInTmp).disk
    /\ pushed = {}
    /\ st_pc = [k \in StoreCalls |-> "idle"]
    /\ st_owner = [k \in StoreCalls |-> "None"]
    /\ gm_pc = [g \in GetCalls |-> "idle"]
    /\ gm_owner = [g \in GetCalls |-> "None"]
    /\ gm_file = [g \in GetCalls |-> NoFile]
    /\ gm_result = [g \in GetCalls |-> NoReply]
    /\ gm_cleanup = [g \in GetCalls |-> "none"]
    /\ gm_before = [g \in GetCalls |-> [ gets |-> {}, stored |-> FALSE ]]

RegistryNext ==
    \/ \E k \in StoreCalls, owner \in RegOwners : StoreSave(k, owner)
    \/ \E k \in StoreCalls : StoreInsert(k)
    \/ \E g \in GetCalls, owner \in RegOwners,
          file_id \in { NoFile, StaleHash } \cup { HashOf(k) : k \in StoreCalls } :
          GetMusic(g, owner, file_id)
    \/ \E g \in GetCalls : GetSend(g)
    \/ \E g \in GetCalls : GetCleanup(g)

(***************************************************************************)
(* face_detection.detect_faces: the timed emotion updates (lines 208-242)  *)
(*                                                                         *)
(* The same calls, on the same executor threads, followed through the      *)
(* busy flag and the two timers only: what a call decodes, draws and       *)
(* caches plays no part in when an update comes due.                       *)
(***************************************************************************)
EmitCalls == 1..MaxEmitCalls
\* time.time() is counted in quarters of a second
PreInterval == 2
PostInterval == 4
\* the first value time.time() returns: seconds since 1970, far more than
\* PostInterval after the 0 both timers start with
StartTime == 4
\* the smoothed labels a call can end with
Labels == { d[1] : d \in Detections }

\* the parameters of send_emotion_update, the function the client registers
CallbackParams == << "emotion_dict", "metadata" >>
\* the positional arguments detect_faces calls the callback with
CallbackArgs(stage, emotion_result) == << stage, emotion_result, "metadata" >>
\* lines 214-225: with no callback registered nothing is called; a call with
\* as many arguments as the function has parameters gives the coroutine that
\* run_coroutine_threadsafe schedules; any other call raises TypeError,
\* which line 224 catches and prints
CallCallback(callback, args) ==
    IF callback = "None" THEN "no_callback"
    ELSE IF Len(args) = Len(CallbackParams) THEN "scheduled"
    ELSE "TypeError"

\* the update of one stage that came due in a call
Fire(c, stage) ==
    [ stage |-> stage, time |-> em_time[c], emotion |-> em_label[c],
      handoff |-> CallCallback(emotion_update_callback, CallbackArgs(stage, em_label[c])) ]

\* every variable of the throttle but the busy flag
detectRest == << latest_frame_bytes, last_processed_image, last_emotion_result,
                 emotion_buffer, df_pc, df_arg, df_image, df_label, df_ret,
                 df_peers, df_analyses >>

\* lines 72-84: the call is entered; it returns at once when it finds the
\* flag set
EmCheck(c) ==
    /\ UNCHANGED << queueVars, registryVars, smoothVars, ledVars, updateVars, detectVars >>
    /\ em_pc[c] = "idle"
    /\ \A b \in EmitCalls : b < c => em_pc[b] # "idle"
    /\ em_pc' = [em_pc EXCEPT ![c] = IF is_processing THEN "done" ELSE "mark"]
    /\ UNCHANGED << clock, last_pre_update_time, last_post_update_time,
                    emotion_update_callback, em_time, em_label, fire_log >>

\* line 88: "is_processing = True"
EmMark(c) ==
    /\ UNCHANGED << queueVars, registryVars, smoothVars, ledVars, updateVars, detectRest >>
    /\ em_pc[c] = "mark"
    /\ is_processing' = TRUE
    /\ em_pc' = [em_pc EXCEPT ![c] = "analyze"]
    /\ UNCHANGED << clock, last_pre_update_time, last_post_update_time,
                    emotion_update_callback, em_time, em_label, fire_log >>

\* lines 93-209: the analysis went through with a smoothed label, and
\* "current_time = time.time()" reads the clock, which never runs backwards
EmAnalyze(c, label, t) ==
    /\ UNCHANGED << queueVars, registryVars, smoothVars, ledVars, updateVars, detectVars >>
    /\ em_pc[c] = "analyze"
    /\ t >= clock
    /\ t <= StartTime + MaxTicks
    /\ clock' = t
    /\ em_time' = [em_time EXCEPT ![c] = t]
    /\ em_label' = [em_label EXCEPT ![c] = label]
    /\ em_pc' = [em_pc EXCEPT ![c] = "pre_check"]
    /\ UNCHANGED << last_pre_update_time, last_post_update_time,
                    emotion_update_callback, fire_log >>

\* lines 244-246: the analysis raised before line 208; no update is looked at
EmAnalyzeError(c) ==
    /\ UNCHANGED << queueVars, registryVars, smoothVars, ledVars, updateVars, detectVars >>
    /\ em_pc[c] = "analyze"
    /\ em_label' = [em_label EXCEPT ![c] = "error"]
    /\ em_pc' = [em_pc EXCEPT ![c] = "release"]
    /\ UNCHANGED << clock, last_pre_update_time, last_post_update_time,
                    emotion_update_callback, em_time, fire_log >>

\* lines 213-225: the "pre" update is due when 0.5 s have passed since
\* last_pre_update_time, read now; the callback is then called
EmPreCheck(c) ==
    /\ UNCHANGED << queueVars, registryVars, smoothVars, ledVars, updateVars, detectVars >>
    /\ em_pc[c] = "pre_check"
    /\ IF em_time[c] - last_pre_update_time >= PreInterval
       THEN /\ fire_log' = Append(fire_log, Fire(c, "pre"))
            /\ em_pc' = [em_pc EXCEPT ![c] = "pre_write"]
       ELSE /\ em_pc' = [em_pc EXCEPT ![c] = "post_check"]
            /\ UNCHANGED fire_log
    /\ UNCHANGED << clock, last_pre_update_time, last_post_update_time,
                    emotion_update_callback, em_time, em_label >>

\* line 226: "last_pre_update_time = current_time"
EmPreWrite(c) ==
    /\ UNCHANGED << queueVars, registryVars, smoothVars, ledVars, updateVars, detectVars >>
    /\ em_pc[c] = "pre_write"
    /\ last_pre_update_time' = em_time[c]
    /\ em_pc' = [em_pc EXCEPT ![c] = "post_check"]
    /\ UNCHANGED << clock, last_post_update_time, emotion_update_callback,
                    em_time, em_label, fire_log >>

\* lines 229-241: the "post" update is due when 1.0 s has passed since
\* last_post_update_time, read now
EmPostCheck(c) ==
    /\ UNCHANGED << queueVars, registryVars, smoothVars, ledVars, updateVars, detectVars >>
    /\ em_pc[c] = "post_check"
    /\ IF em_time[c] - last_post_update_time >= PostInterval
       THEN /\ fire_log' = Append(fire_log, Fire(c, "post"))
            /\ em_pc' = [em_pc EXCEPT ![c] = "post_write"]
       ELSE /\ em_pc' = [em_pc EXCEPT ![c] = "release"]
            /\ UNCHANGED fire_log
    /\ UNCHANGED << clock, last_pre_update_time, last_post_update_time,
                    emotion_update_callback, em_time, em_label >>

\* line 242: "last_post_update_time = current_time"
EmPostWrite(c) ==
    /\ UNCHANGED << queueVars, registryVars, smoothVars, ledVars, updateVars, detectVars >>
    /\ em_pc[c] = "post_write"
    /\ last_post_update_time' = em_time[c]
    /\ em_pc' = [em_pc EXCEPT ![c] = "release"]
    /\ UNCHANGED << clock, last_pre_update_time, emotion_update_callback,
                    em_time, em_label, fire_log >>

\* lines 249-269: the result is cached and the finally clears the flag
EmRelease(c) ==
    /\ UNCHANGED << queueVars, registryVars, smoothVars, ledVars, updateVars, detectRest >>
    /\ em_pc[c] = "release"
    /\ is_processing' = FALSE
    /\ em_pc' = [em_pc EXCEPT ![c] = "done"]
    /\ UNCHANGED << clock, last_pre_update_time, last_post_update_time,
                    emotion_update_callback, em_time, em_label, fire_log >>

\* set_emotion_update_callback, called by the client's lifespan once it is
\* connected to the cloud server
RegisterCallback ==
    /\ UNCHANGED << queueVars, registryVars, smoothVars, ledVars, updateVars, detectVars >>
    /\ emotion_update_callback = "None"
    /\ emotion_update_callback' = "send_emotion_update"
    /\ UNCHANGED << clock, last_pre_update_time, last_post_update_time,
                    em_pc, em_time, em_label, fire_log >>

EmitInit ==
    /\ clock = StartTime
    /\ last_pre_update_time = 0
    /\ last_post_update_time = 0
    /\ emotion_update_callback = "None"
    /\ em_pc = [c \in EmitCalls |-> "idle"]
    /\ em_time = [c \in EmitCalls |-> 0]
    /\ em_label = [c \in EmitCalls |-> "neutral"]
    /\ fire_log = << >>

EmitNext ==
    \/ \E c \in EmitCalls : EmCheck(c)
    \/ \E c \in EmitCalls : EmMark(c)
    \/ \E c \in EmitCalls, label \in Labels, t \in StartTime..(StartTime + MaxTicks) :
          EmAnalyze(c, label, t)
    \/ \E c \in EmitCalls : EmAnalyzeError(c)
    \/ \E c \in EmitCalls : EmPreCheck(c)
    \/ \E c \in EmitCalls : EmPreWrite(c)
    \/ \E c \in EmitCalls : EmPostCheck(c)
    \/ \E c \in EmitCalls : EmPostWrite(c)
    \/ \E c \in EmitCalls : EmRelease(c)
    \/ RegisterCallback

(***************************************************************************)
(* face_detection: the smoothing of lines 185-196, calculate_confidence    *)
(***************************************************************************)
\* what one analysis appends: DeepFace's dominant emotion with its score in
\* 0..100, or ("neutral", 0) when DeepFace raised ValueError
Observations ==
    { <<"happy", 90>>, <<"happy", 80>>, <<"happy", 70>>, <<"sad", 60>>, <<"neutral", 0>> }

\* sum(score for emotion, score in buffer if emotion == dominant_emotion)
RECURSIVE SumScores(_, _)
SumScores(buffer, emotion) ==
    IF buffer = << >> THEN 0
    ELSE (IF Head(buffer)[1] = emotion THEN Head(buffer)[2] ELSE 0)
         + SumScores(Tail(buffer), emotion)

RECURSIVE SumAll(_)
SumAll(buffer) ==
    IF buffer = << >> THEN 0 ELSE Head(buffer)[2] + SumAll(Tail(buffer))

\* a confidence that averages the scores of every entry of the buffer
calculate_confidence_all(buffer, dominant_emotion) ==
    IF buffer = << >> THEN [ num |-> 0, den |-> 1 ]
    ELSE [ num |-> SumAll(buffer), den |-> Len(buffer) * 100 ]

\* calculate_confidence: 0.0 when no entry matches, else the average of the
\* matching scores divided by 100; the float is kept as the fraction num/den
calculate_confidence(buffer, dominant_emotion) ==
    LET matching == CountOf(buffer, dominant_emotion) IN
    IF matching = 0 THEN [ num |-> 0, den |-> 1 ]
    ELSE [ num |-> SumScores(buffer, dominant_emotion), den |-> matching * 100 ]

\* lines 190-196: emotion_result and confidence of a non-empty buffer
Smoothed(buffer) ==
    [ label |-> MostCommon(buffer),
      confidence |-> calculate_confidence(buffer, MostCommon(buffer)) ]

\* the sids of the browser sessions that send video_frame events
FrameSids == {"b1", "b2"}

\* handle_video_frame(sid, ...) runs detect_faces(blob), which is not given
\* the sid; lines 186-196 of one analysis after another: the detection is
\* appended to the one emotion_buffer of the module and the buffer is
\* smoothed; limit bounds the analyses of one behaviour
ObserveUpTo(sid, detection, limit) ==
    /\ UNCHANGED << queueVars, registryVars, emitVars, ledVars, updateVars >>
    /\ Len(observed) < limit
    /\ emotion_buffer' = BufferAppend(emotion_buffer, detection)
    /\ smoothed' = Smoothed(emotion_buffer')
    /\ observed' = Append(observed, [ sid |-> sid, detection |-> detection ])
    /\ UNCHANGED << latest_frame_bytes, is_processing, last_processed_image,
                    last_emotion_result, df_pc, df_arg, df_image, df_label, df_ret,
                    df_peers, df_analyses >>

\* the frames of two sessions, analysed one after another
Observe(sid, detection) == ObserveUpTo(sid, detection, MaxObs)

\* the frames of one session, as many as fill the buffer and go beyond it
ObserveMany(detection) == ObserveUpTo("b1", detection, MaxWindowObs)

\* before any detection: the label is "neutral" and the confidence that of
\* the empty buffer
SmoothInit ==
    /\ smoothed = [ label |-> "neutral",
                    confidence |-> calculate_confidence(<< >>, "neutral") ]
    /\ observed = << >>

SmoothNext == \E sid \in FrameSids, detection \in Observations : Observe(sid, detection)

WindowNext == \E detection \in Detections : ObserveMany(detection)

(***************************************************************************)
(* cloud_server_api: handle_emotion_update and the messages it is sent     *)
(***************************************************************************)
Sids == {"s1", "s2"}

\* the payload the client emits with "emotion_update": send_emotion_update
\* in client_web_server/main.py and send_update in test_send_server.py
ClientPayload(emotion_dict, metadata) ==
    [ emotion_dict |-> emotion_dict, metadata |-> metadata ]

\* the fields of EmotionUpdate that have no default
EmotionUpdateRequired == {"stage", "emotion"}

\* EmotionUpdate(**data): pydantic raises ValidationError when a required
\* field is missing; keys that are no field are ignored
EmotionUpdateAccepts(data) == EmotionUpdateRequired \subseteq DOMAIN data

\* the messages handled: the client's, and those that carry the fields of
\* EmotionUpdate
Payloads ==
    { ClientPayload([ pre |-> "happy" ], [ confidence |-> 95 ]) }
    \cup { [ stage |-> stage, emotion |-> emotion, metadata |-> [ confidence |-> 95 ] ] :
             stage \in {"post", "pre"}, emotion \in Emotions }

\* handle_emotion_update(sid, data): the message is parsed, stamped and
\* handed to add_item with the sid of the sender
HandleEmotionUpdate(sid, data) ==
    /\ Len(update_log) < MaxUpdates
    /\ IF EmotionUpdateAccepts(data)
       THEN /\ AddItem(sid, NoneStr, data.stage, data.emotion)
            /\ update_log' = Append(update_log, [ sid |-> sid, data |-> data,
                                                  result |-> "add_item" ])
       ELSE /\ update_log' = Append(update_log, [ sid |-> sid, data |-> data,
                                                  result |-> "ValidationError" ])
            /\ UNCHANGED << queueVars, detectVars, registryVars, sideVars >>

UpdateInit == update_log = << >>

UpdateNext == \E sid \in Sids, data \in Payloads : HandleEmotionUpdate(sid, data)

(***************************************************************************)
(* arduino_led: ArduinoLEDController                                       *)
(*                                                                         *)
(* The controller is used by test_led.py alone, from one thread: a call    *)
(* is over before the next is made. The reading thread (_read_from_arduino)*)
(* reads from the link and assigns no field.                               *)
(***************************************************************************)
\* self.EMOTIONS
EMOTIONS == {"angry", "fear", "neutral", "sad", "disgust", "happy", "surprise"}

\* the emotions update_led is called with: one of EMOTIONS, and the label
\* detect_faces gives a failed analysis, which is not one
LedInputs == {"happy", "error"}

\* f"{emotion}\n".encode("utf-8"): the line sent for an emotion
LedLine(emotion) == << emotion, "\n" >>

\* how _select_serial_port and serial.Serial(...) can end
ConnectOutcomes == {"ok", "no_port", "SerialException"}

\* an update_led that sends whatever label it is given
UpdateLedSendsAnyLabel(emotion) == ser = "open"

\* lines 132-140: whether update_led reaches self.ser.write
UpdateLedSends(emotion) == ser = "open" /\ emotion \in EMOTIONS

\* initialize_connection(): an open connection is kept; otherwise a port is
\* looked for and opened, and the reading thread started
initialize_connection(outcome) ==
    /\ UNCHANGED << queueVars, detectVars, registryVars, emitVars, smoothVars, updateVars >>
    /\ Len(led_log) < MaxLedCalls
    /\ IF ser = "open"
       THEN /\ outcome = "ok"
            /\ UNCHANGED << ser, reading_thread, stop_reading_thread >>
       ELSE IF outcome = "ok"
       THEN /\ ser' = "open"
            /\ stop_reading_thread' = FALSE
            /\ reading_thread' = "started"
       ELSE IF outcome = "no_port"
       THEN UNCHANGED << ser, reading_thread, stop_reading_thread >>
       ELSE /\ ser' = "None"
            /\ UNCHANGED << reading_thread, stop_reading_thread >>
    /\ led_log' = Append(led_log, [ op |-> "initialize_connection", emotion |-> "None",
                                    result |-> outcome ])
    /\ UNCHANGED serial_written

\* update_led(emotion): the line is written when the connection is open and
\* the emotion valid; a write that raises is logged and sends nothing
update_led(emotion, raises) ==
    /\ UNCHANGED << queueVars, detectVars, registryVars, emitVars, smoothVars, updateVars >>
    /\ Len(led_log) < MaxLedCalls
    /\ raises => UpdateLedSends(emotion)
    /\ IF UpdateLedSends(emotion) /\ ~raises
       THEN serial_written' = Append(serial_written, LedLine(emotion))
       ELSE UNCHANGED serial_written
    /\ led_log' = Append(led_log,
          [ op |-> "update_led", emotion |-> emotion,
            result |-> IF ~UpdateLedSends(emotion) THEN "ignored"
                       ELSE IF raises THEN "SerialException" ELSE "sent" ])
    /\ UNCHANGED << ser, reading_thread, stop_reading_thread >>

\* close_connection(): the reading thread is told to stop and joined, the
\* port closed, both fields reset
close_connection ==
    /\ UNCHANGED << queueVars, detectVars, registryVars, emitVars, smoothVars, updateVars >>
    /\ Len(led_log) < MaxLedCalls
    /\ stop_reading_thread' = TRUE
    /\ ser' = "None"
    /\ reading_thread' = "None"
    /\ led_log' = Append(led_log, [ op |-> "close_connection", emotion |-> "None",
                                    result |-> "closed" ])
    /\ UNCHANGED serial_written

\* __init__
LedInit ==
    /\ ser = "None"
    /\ reading_thread = "None"
    /\ stop_reading_thread = FALSE
    /\ serial_written = << >>
    /\ led_log = << >>

LedNext ==
    \/ \E outcome \in ConnectOutcomes : initialize_connection(outcome)
    \/ \E emotion \in LedInputs, raises \in BOOLEAN : update_led(emotion, raises)
    \/ close_connection

Init ==
    /\ QueueInit /\ DetectInit /\ RegistryInit
    /\ EmitInit /\ SmoothInit /\ UpdateInit /\ LedInit

Next ==
    \/ QueueNext \/ DetectNext \/ RegistryNext
    \/ EmitNext \/ SmoothNext \/ WindowNext \/ UpdateNext \/ LedNext

\* the parts side by side
Spec == Init /\ [][Next]_vars

\* each part on its own
SpecQueue == Init /\ [][QueueNext]_vars

SpecDetect == Init /\ [][DetectNext]_vars

SpecRegistry == Init /\ [][RegistryNext]_vars

SpecEmit == Init /\ [][EmitNext]_vars

SpecSmooth == Init /\ [][SmoothNext]_vars

SpecWindow == Init /\ [][WindowNext]_vars

SpecUpdate == Init /\ [][UpdateNext]_vars

SpecLed == Init /\ [][LedNext]_vars

(***************************************************************************)
(* Properties of the coalescing queue and its worker.                      *)
(***************************************************************************)
Adds == DOMAIN add_log
Jobs == DOMAIN gen_log
StageOf(i) == add_log[i].item.stage
EpochOf(i) == add_log[i].epoch
\* the jobs that carried the request of the i-th accepted add_item
JobsOf(i) == { p \in Jobs : gen_log[p].item = add_log[i].item }
\* the same, those taken from a pending slot (not keep-alive replays)
SlotJobsOf(i) == { p \in JobsOf(i) : gen_log[p].src # "replay" }
\* the request of add i was taken from its slot among the first n jobs
RanWithin(i, n) == \E p \in SlotJobsOf(i) : p <= n
\* no later request of the same stage arrived before the same selection
LastOfEpoch(i) ==
    ~ \E k \in Adds : k > i /\ StageOf(k) = StageOf(i) /\ EpochOf(k) = EpochOf(i)

\* C1 (coalescing): of the post requests enqueued between two selections of
\* the runner, every one but the last is never handed to the generator, and
\* once the runner has selected again, the job it took is the last one's
\* payload, taken from the slot exactly once.
C1_Coalescing ==
    \A i \in Adds, j \in Adds :
        (i < j /\ StageOf(i) = "post" /\ StageOf(j) = "post" /\ EpochOf(i) = EpochOf(j))
        => /\ JobsOf(i) = {}
           /\ (LastOfEpoch(j) /\ Len(gen_log) > EpochOf(j))
              => /\ gen_log[EpochOf(j) + 1] = [ item |-> add_log[j].item, src |-> "post" ]
                 /\ SlotJobsOf(j) = { EpochOf(j) + 1 }

\* three post requests were enqueued before one selection, and the runner
\* then took the third
C1_Witness ==
    /\ Len(add_log) >= 3
    /\ \A i \in 1..3 : StageOf(i) = "post" /\ EpochOf(i) = 0
    /\ Len(gen_log) >= 1
    /\ gen_log[1].item = add_log[3].item

\* C2 (priority): when a pre request L and a post request H are both pending
\* before a selection, the job selected is a post request and not L; L runs
\* only in a later job, and never runs when a later pre request arrived
\* while it was still pending.
C2_Priority ==
    /\ \A i \in Adds, j \in Adds :
          (/\ StageOf(i) = "pre" /\ StageOf(j) = "post"
           /\ EpochOf(i) <= EpochOf(j)
           /\ ~RanWithin(i, EpochOf(j))
           /\ Len(gen_log) > EpochOf(j))
          => /\ gen_log[EpochOf(j) + 1].src = "post"
             /\ LastOfEpoch(j) => gen_log[EpochOf(j) + 1].item = add_log[j].item
             /\ \A p \in JobsOf(i) : p > EpochOf(j) + 1
    /\ \A i \in Adds, k \in Adds :
          (i < k /\ StageOf(i) = "pre" /\ StageOf(k) = "pre" /\ ~RanWithin(i, EpochOf(k)))
          => JobsOf(i) = {}

\* L and H were enqueued before the first selection; H ran first, L second
C2_Witness ==
    /\ Len(add_log) >= 2 /\ Len(gen_log) >= 2
    /\ \E i \in 1..2, j \in 1..2 :
          /\ StageOf(i) = "pre" /\ StageOf(j) = "post"
          /\ EpochOf(i) = 0 /\ EpochOf(j) = 0
          /\ gen_log[1].item = add_log[j].item
          /\ gen_log[2] = [ item |-> add_log[i].item, src |-> "pre" ]

\* the runner is at its wait with nothing pending and a LastHighRecord
KeepAliveState ==
    /\ runner_pc = "wait"
    /\ latest_post_item = None /\ latest_pre_item = None
    /\ last_post_item # None

\* C3 (keep-alive replay): while a LastHighRecord exists the runner is never
\* left waiting on a cleared event, and with nothing pending the runner's
\* next step hands the LastHighRecord itself (same owner, emotion, metadata)
\* to the generator and leaves the event set for the replay after it.
C3_KeepAliveReplay ==
    /\ []((runner_pc = "wait" /\ last_post_item # None) => new_item_event)
    /\ [][ (KeepAliveState /\ (runner_pc' # runner_pc \/ gen_log' # gen_log))
           => /\ runner_pc' = "generate"
              /\ item_to_process' = last_post_item
              /\ gen_log' = Append(gen_log, [ item |-> last_post_item[1], src |-> "replay" ])
              /\ new_item_event'
              /\ last_post_item' = last_post_item ]_vars

\* one post request was generated and then replayed twice, nothing else
\* having been enqueued
C3_Witness ==
    /\ Len(add_log) = 1 /\ calls = 1
    /\ Len(gen_log) >= 3
    /\ gen_log[1] = [ item |-> add_log[1].item, src |-> "post" ]
    /\ gen_log[2] = [ item |-> add_log[1].item, src |-> "replay" ]
    /\ gen_log[3] = [ item |-> add_log[1].item, src |-> "replay" ]

HasOwner(item) == Truthy(item.sid) \/ Truthy(item.client_id)
Pending == { latest_post_item, latest_pre_item, last_post_item, item_to_process } \ { None }

\* C6 (validation): an add_item call with neither a sid nor a client_id ends
\* with ValidationError and leaves both slots, the LastHighRecord and the
\* event as they were; no request without an owner is ever in the queue.
C6_Validation ==
    /\ [](\A x \in Pending : HasOwner(x[1]))
    /\ [](\A i \in Adds : HasOwner(add_log[i].item))
    /\ [][ (calls' = calls + 1 /\ ~Truthy(last_call'.sid) /\ ~Truthy(last_call'.client_id))
           => /\ last_call'.result = "ValidationError"
              /\ UNCHANGED << latest_post_item, latest_pre_item, last_post_item,
                              new_item_event, add_log, gen_log, dispatch_log >> ]_vars

\* a call without an owner was rejected while a request was pending and the
\* event was set
C6_Witness ==
    /\ last_call.result = "ValidationError"
    /\ ~Truthy(last_call.sid) /\ ~Truthy(last_call.client_id)
    /\ latest_post_item # None
    /\ new_item_event

\* C8 (the worker loop survives a failed generation): a failure of generate
\* never ends the runner task.
C8_RunnerSurvivesFailure == runner_pc # "crashed"

\* the first later request of the same stage that arrived while the request
\* of add i had not been taken: the one that overwrote it
Overwriters(i) ==
    { k \in Adds : /\ k > i /\ StageOf(k) = StageOf(i) /\ ~RanWithin(i, EpochOf(k))
                   /\ \A m \in Adds : (m > i /\ m < k) => StageOf(m) # StageOf(i) }

\* C10 (per-session slots): a pending request is overwritten only by a newer
\* request of the same stage from the same session.
C10_PerSessionSlots ==
    \A i \in Adds : StageOf(i) \in {"post", "pre"} =>
        \A k \in Overwriters(i) : Owner(add_log[k].item) = Owner(add_log[i].item)

\* the generate calls handed to a thread that have neither returned nor raised
InFlight == Len(gen_log) - Len(gen_done)

\* C12 (serialized worker): at every moment at most one call of
\* MusicGenerator.generate is in flight, whatever add_item calls arrive
\* while it runs; a job is handed over only when every job before it ended.
C12_Serialized ==
    /\ InFlight \in {0, 1}
    /\ \A p \in Jobs : p < Len(gen_log) => p \in DOMAIN gen_done

\* a second job is in flight, the first has ended, and a request that
\* arrived during the second is pending
C12_Witness ==
    /\ Len(gen_log) = 2 /\ Len(gen_done) = 1
    /\ runner_pc = "generate"
    /\ latest_post_item # None
    /\ \E i \in Adds : EpochOf(i) = 2 /\ latest_post_item = Some(add_log[i].item)

\* the jobs of stage "post" whose generation returned
CompletedPost ==
    { p \in DOMAIN gen_done : gen_done[p] = "ok" /\ gen_log[p].item.stage = "post" }
LatestOf(S) == CHOOSE p \in S : \A q \in S : q <= p

\* C17 (LastHighRecord): last_post_item is the request of the latest post
\* job whose generation returned, None when there is none; an add_item
\* call, a generation that raised and a generated pre job leave it as it was.
C17_LastHighRecord ==
    /\ [](last_post_item = IF CompletedPost = {} THEN None
                           ELSE Some(gen_log[LatestOf(CompletedPost)].item))
    /\ [][ (\/ calls' # calls
            \/ gen_done' = Append(gen_done, "error")
            \/ /\ gen_done' = Append(gen_done, "ok")
               /\ gen_log[Len(gen_log)].item.stage # "post")
           => last_post_item' = last_post_item ]_vars

\* a post job and then a pre job were generated; the LastHighRecord is the
\* request of the first and another post request is pending
C17_Witness ==
    /\ gen_done = << "ok", "ok" >>
    /\ gen_log[1].src = "post" /\ gen_log[2].src = "pre"
    /\ last_post_item = Some(gen_log[1].item)
    /\ latest_post_item # None /\ latest_post_item # last_post_item

\* C24 (no retry): a job whose generation raised has no dispatch task, and
\* its request is handed to the generator in no later job; only a new
\* add_item call (a new request) can bring the same emotion back.
C24_NoRetry ==
    \A p \in DOMAIN gen_done :
        gen_done[p] = "error"
        => /\ \A t \in DOMAIN dispatch_log : dispatch_log[t].music # p
           /\ \A q \in Jobs : q > p => gen_log[q].item # gen_log[p].item

\* the second job raised while a post request was pending: the first job
\* was handed on, the second was not
C24_Witness ==
    /\ gen_done = << "ok", "error" >>
    /\ latest_post_item # None
    /\ \E t \in DOMAIN dispatch_log : dispatch_log[t].music = 1
    /\ \A t \in DOMAIN dispatch_log : dispatch_log[t].music # 2

\* the runner is suspended in "await self._new_item_event.wait()"
Blocked == runner_pc = "wait" /\ ~new_item_event

\* C25 (no lost wake-up): whenever the runner is blocked on the event, both
\* slots are empty and there is no LastHighRecord, and every post or pre
\* request enqueued so far, those enqueued during a generation included,
\* was taken from its slot or overwritten by a later request of its stage.
C25_NoLostWakeup ==
    Blocked
    => /\ latest_post_item = None /\ latest_pre_item = None
       /\ last_post_item = None
       /\ \A i \in Adds :
             StageOf(i) \in {"post", "pre"}
             => \/ SlotJobsOf(i) # {}
                \/ \E k \in Adds : k > i /\ StageOf(k) = StageOf(i)

\* a pre request was enqueued while the first was being generated; both
\* were generated, and the runner then found nothing and blocked
C25_Witness ==
    /\ Blocked
    /\ gen_done = << "ok", "ok" >>
    /\ Len(add_log) = 2 /\ EpochOf(2) = 1
    /\ gen_log[2] = [ item |-> add_log[2].item, src |-> "pre" ]

\* C26 (lock discipline): every write to _latest_post_item, _latest_pre_item
\* and last_post_item is made while self._queue_lock is held.
C26_WritesUnderLock == \A w \in write_log : w.locked

\* stage a is of the same or a higher priority than stage b
SameOrHigher(a, b) == a = "post" \/ (a = "pre" /\ b = "pre")
\* the dispatch tasks created in this step
NewTasks(old, new) == { new[t] : t \in (DOMAIN new) \ (DOMAIN old) }

\* C27 (superseded, not cancelled): an add_item call made while a
\* generation is in flight leaves the generation and the runner as they are
\* and puts its request in its slot; the generation that returns is handed
\* on to the owner of the request taken (the push for a sid, the stored URL
\* for a client_id) whatever is pending, and leaves the slots as they are;
\* a request of the same or a higher priority enqueued after job p was
\* taken is the request of job p + 1, unless a still newer request
\* overwrote it or a post request outranked it before that selection.
C27_SupersededNotCancelled ==
    /\ [][ (runner_pc = "generate" /\ calls' = calls + 1)
           => /\ runner_pc' = "generate"
              /\ item_to_process' = item_to_process
              /\ UNCHANGED << gen_log, gen_done, dispatch_log >>
              /\ (last_call'.result = "ok" /\ add_log'[Len(add_log')].item.stage = "post")
                    => latest_post_item' = Some(add_log'[Len(add_log')].item)
              /\ (last_call'.result = "ok" /\ add_log'[Len(add_log')].item.stage = "pre")
                    => latest_pre_item' = Some(add_log'[Len(add_log')].item) ]_vars
    /\ [][ (runner_pc = "generate" /\ gen_done' = Append(gen_done, "ok"))
           => LET item == item_to_process[1]
                  tasks == NewTasks(dispatch_log, dispatch_log')
              IN  /\ Truthy(item.sid)
                        => \E t \in tasks : /\ t.kind = "notify" /\ t.owner = item.sid
                                            /\ t.music = Len(gen_log)
                  /\ Truthy(item.client_id)
                        => \E t \in tasks : /\ t.kind = "create_url" /\ t.owner = item.client_id
                                            /\ t.music = Len(gen_log)
                  /\ tasks # {}
                  /\ UNCHANGED << latest_post_item, latest_pre_item >> ]_vars
    /\ [](\A i \in Adds :
            (/\ EpochOf(i) >= 1
             /\ Len(gen_log) > EpochOf(i)
             /\ SameOrHigher(StageOf(i), gen_log[EpochOf(i)].item.stage)
             /\ LastOfEpoch(i)
             /\ StageOf(i) = "pre"
                   => ~ \E k \in Adds : StageOf(k) = "post" /\ EpochOf(k) = EpochOf(i))
            => gen_log[EpochOf(i) + 1] = [ item |-> add_log[i].item, src |-> StageOf(i) ])

\* a post request was enqueued while a pre request was being generated;
\* the pre job was handed on to its owner and the post request is the
\* second job, now in flight
C27_Witness ==
    /\ Len(add_log) = 2 /\ StageOf(1) = "pre" /\ StageOf(2) = "post"
    /\ EpochOf(2) = 1
    /\ gen_done = << "ok" >>
    /\ \E t \in DOMAIN dispatch_log :
          dispatch_log[t].music = 1 /\ dispatch_log[t].metadata = add_log[1].item.metadata
    /\ runner_pc = "generate"
    /\ gen_log[2] = [ item |-> add_log[2].item, src |-> "post" ]

\* C37 (a stage that is neither "pre" nor "post"): an accepted add_item with
\* such a stage leaves _latest_post_item, _latest_pre_item and last_post_item
\* as they are and sets the event; its request is never handed to the
\* generator and no dispatch task carries it.
C37_OtherStageIgnored ==
    /\ [](\A i \in Adds :
            StageOf(i) \notin {"post", "pre"}
            => /\ JobsOf(i) = {}
               /\ Some(add_log[i].item) \notin
                      { latest_post_item, latest_pre_item, last_post_item }
               /\ \A t \in DOMAIN dispatch_log :
                     dispatch_log[t].metadata # add_log[i].item.metadata)
    /\ [][ (/\ Len(add_log') = Len(add_log) + 1
            /\ add_log'[Len(add_log')].item.stage \notin {"post", "pre"})
           => /\ latest_post_item' = latest_post_item
              /\ latest_pre_item' = latest_pre_item
              /\ last_post_item' = last_post_item
              /\ new_item_event'
              /\ gen_log' = gen_log /\ dispatch_log' = dispatch_log ]_vars

\* the only request enqueued had the stage "mid"; the runner woke, found
\* nothing to run and blocked again
C37_Witness ==
    /\ Len(add_log) = 1 /\ StageOf(1) = "mid"
    /\ Blocked
    /\ gen_log = << >> /\ dispatch_log = << >>

(***************************************************************************)
(* Properties of the detection throttle.                                   *)
(***************************************************************************)
\* the call found is_processing set and took the frame-skipping return
Skipped(c) == df_peers[c] # {}
\* the calls that have stored their image (line 253) / their label (line 254)
StoredImage == { c \in FrameCalls : ~Skipped(c) /\ df_pc[c] \in {"store_label", "release", "done"}
                                    /\ df_ret[c] # Raised }
StoredLabel == { c \in StoredImage : df_pc[c] \in {"release", "done"} }
\* what a skipped call can find in the result cache
CacheReturns(c) ==
    { SkipPlaceholder(df_arg[c]) }
    \cup { Returned(df_image[a], l) :
             a \in StoredImage, l \in { df_label[x] : x \in StoredLabel } \cup { "neutral" } }

\* C4 as claimed (single-flight skip): when a call arrives while another
\* call's analysis is running, the two calls return the same
\* (processedBytes, label) pair and the analysis ran once for the two.
C4_BothCallsSameResult ==
    \A a \in FrameCalls, b \in FrameCalls :
        (/\ a \in df_peers[b] /\ df_pc[a] = "done" /\ df_pc[b] = "done"
         /\ df_ret[a] # Raised /\ df_ret[b] # Raised)
        => /\ df_ret[a] = df_ret[b]
           /\ df_analyses[a] + df_analyses[b] = 1

\* C4 as amended: when a call arrives while another call's analysis is
\* running, the analysis runs once for the two, by the first; the second
\* returns what it reads from the result cache (an image and a label stored
\* by runs, "neutral" being the label before any), or its own frame encoded
\* with "neutral" when no image is cached.
C4_SkipReturnsCache ==
    \A a \in FrameCalls, b \in FrameCalls :
        (a \in df_peers[b] /\ df_pc[b] = "done")
        => /\ df_analyses[b] = 0
           /\ df_ret[b] \in CacheReturns(b)
           /\ df_pc[a] = "done" => df_analyses[a] + df_analyses[b] = 1

\* the second call arrived during the first call's analysis; the first
\* returned its own result, the second the placeholder of its own frame
C4_Witness ==
    /\ df_peers[2] = {1}
    /\ df_pc[1] = "done" /\ df_pc[2] = "done"
    /\ df_analyses[1] = 1 /\ df_analyses[2] = 0
    /\ df_ret[1] = Returned(Png("f1", TRUE), "happy")
    /\ df_ret[2] = Returned(Png("f2", FALSE), "neutral")

\* C7 (at most one analysis in flight): no two calls are at once between
\* marking the busy flag and clearing it.
C7_AtMostOneAnalysis == Cardinality(Analysing) <= 1

\* C11 (failure containment): a call that was not skipped and whose analysis
\* raised, the frame that cannot be decoded included, returns to its caller
\* the frame without decoration and the label "error"; nothing is raised.
C11_FailureContained ==
    \A c \in FrameCalls :
        (/\ ~Skipped(c) /\ df_analyses[c] = 1 /\ df_label[c] = "error"
         /\ df_ret[c] # NotReturned)
        => df_ret[c] = Returned(Png(df_image[c][1], FALSE), "error")

\* the calls that were not skipped and have returned to their caller
ReturnedRuns ==
    { c \in FrameCalls : df_pc[c] = "done" /\ ~Skipped(c) /\ df_ret[c] # Raised }

\* C28 (one observation per run): once every call entered is over, the
\* history holds one observation for each call that was not skipped and
\* returned to its caller, the calls whose analysis failed included, and
\* none for the skipped calls.
C28_OneObservationPerRun ==
    (\A c \in FrameCalls : df_pc[c] \in {"idle", "done"})
    => Len(emotion_buffer) = Cardinality(ReturnedRuns)

\* C33 (what a skipped call returns): a call that found the busy flag set
\* returns the pair (image, label) stored by one completed run, or its own
\* frame with the label "neutral" when no run has completed. (Stated for the
\* calls whose own frame decodes: the others raise at line 83 when no image
\* is cached.)
C33_SkipReturnsLastCompleted ==
    \A c \in FrameCalls :
        (Skipped(c) /\ df_pc[c] = "done" /\ Decodes(df_arg[c]))
        => \/ df_ret[c] = Returned(Png(df_arg[c], FALSE), "neutral")
           \/ \E a \in StoredLabel : df_ret[c] = Returned(df_image[a], df_label[a])

\* C34 (the busy flag is always released): whenever no call is between
\* marking the flag and its exit, the exit by an exception included, the
\* flag is false; so a call takes the skipping return only when some call
\* was executing at its test of the flag.
C34_FlagReleased ==
    /\ Analysing = {} => ~is_processing
    /\ \A c \in FrameCalls : df_pc[c] \in {"skip", "skip_label"} => df_peers[c] # {}
    /\ \A c \in FrameCalls : (df_pc[c] = "done" /\ df_analyses[c] = 0) => df_peers[c] # {}

\* call 1 decoded the frame that does not decode and left by the exception
\* of imencode; call 2, entered after it, was analysed and not skipped
C34_Witness ==
    /\ df_image[1] = Png("bad", FALSE) /\ df_ret[1] = Raised /\ df_pc[1] = "done"
    /\ df_arg[2] = "f1" /\ ~Skipped(2) /\ df_pc[2] = "done"
    /\ df_ret[2] = Returned(Png("f1", TRUE), "happy")
    /\ ~is_processing

\* the call entered last: calls are entered in the order of their numbers
LatestEntered ==
    CHOOSE c \in FrameCalls :
        /\ df_pc[c] # "idle"
        /\ \A b \in FrameCalls : df_pc[b] # "idle" => b <= c

\* C32 (freshest frame): a call that was not skipped decodes, when its
\* analysis starts, the frame of the call entered last by then, which may be
\* the frame of a later call rather than its own.
C32_FreshestFrame ==
    [][ \A c \in FrameCalls :
          (df_pc[c] = "read" /\ df_pc'[c] = "analyze")
          => df_image'[c] = Png(df_arg[LatestEntered], FALSE) ]_vars

\* call 1, entered with f2, analysed and returned f1, the frame of call 2,
\* which was skipped
C32_Witness ==
    /\ ~Skipped(1) /\ Skipped(2)
    /\ df_arg[1] = "f2" /\ df_arg[2] = "f1"
    /\ df_pc[1] = "done" /\ df_pc[2] = "done"
    /\ df_ret[1] = Returned(Png("f1", TRUE), "happy")

\* handle_video_frame(sid, metadata, blob): the session whose video_frame
\* event carried the frame, and to which the result of its call is emitted;
\* f1 is a frame of b1, the other frames are frames of b2
SidOfFrame(frame) == IF frame = "f1" THEN "b1" ELSE "b2"

\* C35 (no cross-session frames): the image a call returns, skipped or not,
\* was computed from a frame of the session the call was made for.
C35_NoCrossSessionFrames ==
    \A c \in FrameCalls :
        (df_pc[c] = "done" /\ Len(df_ret[c]) = 2)
        => SidOfFrame(df_ret[c][1][1]) = SidOfFrame(df_arg[c])

(***************************************************************************)
(* Properties of the artifact registry.                                    *)
(***************************************************************************)
\* request g asks for the artifact of store k with the owner it was stored for
AsksFor(g, k) == gm_file[g] = HashOf(k) /\ gm_owner[g] = st_owner[k]
\* no request for the same artifact was received before request g
FirstFor(g, k) == \A j \in GetCalls : (j < g /\ gm_pc[j] # "idle") => ~AsksFor(j, k)

\* C5 (one-shot artifact): of two successive get_music requests for a stored
\* artifact, the second received when the first is over (its background
\* task included), the first answers with the bytes stored and the second
\* with not-found.
C5_OneShotArtifact ==
    \A k \in StoreCalls, g1 \in GetCalls, g2 \in GetCalls :
        (/\ gm_pc[g1] # "idle" /\ gm_pc[g2] # "idle"
         /\ AsksFor(g1, k) /\ AsksFor(g2, k)
         /\ gm_before[g1].stored
         /\ FirstFor(g1, k)
         /\ g1 \in gm_before[g2].gets
         /\ \A j \in GetCalls : (j < g2 /\ j # g1) => ~AsksFor(j, k))
        => /\ gm_result[g1] = ReplyFile(MusicBytes(k))
           /\ gm_result[g2] = ReplyNotFound

\* an artifact was stored, fetched, and asked for again
C5_Witness ==
    /\ st_pc[1] = "done"
    /\ gm_pc[1] = "done" /\ gm_pc[2] = "done"
    /\ AsksFor(1, 1) /\ AsksFor(2, 1)
    /\ gm_before[1].stored
    /\ gm_before[2].gets = {1}
    /\ gm_result[1] = ReplyFile(MusicBytes(1))
    /\ gm_result[2] = ReplyNotFound

\* C9 (single-retrieval atomicity): whatever the interleaving of get_music
\* requests and their background tasks, at most one request for an
\* (owner, identifier) answers with the bytes.
C9_AtMostOneGetReturnsBytes ==
    \A g1 \in GetCalls, g2 \in GetCalls :
        (/\ g1 # g2
         /\ gm_file[g1] # NoFile
         /\ gm_file[g1] = gm_file[g2] /\ gm_owner[g1] = gm_owner[g2])
        => ~(/\ gm_result[g1] # NoReply /\ gm_result[g1][1] = "file"
             /\ gm_result[g2] # NoReply /\ gm_result[g2][1] = "file")

\* some request was sent the bytes of the artifact of store k
Retrieved(k) ==
    \E g \in GetCalls : AsksFor(g, k) /\ gm_result[g] # NoReply /\ gm_result[g][1] = "file"
\* no request for the owner and file of request g has been answered
NoneAnswered(g) ==
    \A j \in GetCalls :
        (gm_owner[j] = gm_owner[g] /\ gm_file[j] = gm_file[g] /\ gm_pc[j] # "idle")
        => gm_result[j] = NoReply

\* C18 (push dispatch leaves no registry entry): once the music_generated
\* event for an artifact was sent to a sid, the registry holds no entry for
\* that artifact.
C18_PushLeavesNoEntry ==
    \A m \in pushed : ~(m.to \in DOMAIN music_urls /\ m.file_id \in music_urls[m.to])

\* C19 (store/pull round trip): the next step of createmusicurl, once it has
\* written the bytes generated for a client_id, stores them under
\* (client_id, identifier); from then until a request is sent them, the
\* identifier is in the listing of client_id, which a listing request
\* answers with, and the file holds the generated bytes; the first request
\* for (client_id, identifier) that is answered is answered with exactly
\* those bytes.
C19_RoundTrip ==
    /\ [][ \A k \in StoreCalls :
             (st_pc[k] = "insert" /\ st_pc'[k] # "insert" /\ st_owner[k] \notin RegSids)
             => /\ st_pc'[k] = "done"
                /\ HashOf(k) \in music_urls'[st_owner[k]]
                /\ disk'[HashOf(k)] = MusicBytes(k) ]_vars
    /\ [](\A k \in StoreCalls :
            (st_pc[k] = "done" /\ st_owner[k] \notin RegSids /\ ~Retrieved(k))
            => /\ HashOf(k) \in Listing(st_owner[k])
               /\ HashOf(k) \in DOMAIN disk
               /\ disk[HashOf(k)] = MusicBytes(k))
    /\ [][ \A g \in GetCalls, k \in StoreCalls :
             (/\ st_pc[k] = "done" /\ st_owner[k] \notin RegSids /\ ~Retrieved(k)
              /\ gm_pc[g] = "idle" /\ gm_pc'[g] = "done"
              /\ gm_owner'[g] = st_owner[k] /\ gm_file'[g] = NoFile)
             => /\ gm_result'[g][1] = "available_files"
                /\ HashOf(k) \in gm_result'[g][2] ]_vars
    /\ [][ \A g \in GetCalls, k \in StoreCalls :
             (/\ gm_pc[g] = "send" /\ gm_pc'[g] # "send"
              /\ AsksFor(g, k) /\ st_owner[k] \notin RegSids
              /\ NoneAnswered(g))
             => gm_result'[g] = ReplyFile(MusicBytes(k)) ]_vars

\* an artifact was stored for c1, a listing request was answered with its
\* identifier, and the request for it that came next was sent its bytes
C19_Witness ==
    /\ st_pc[1] = "done" /\ st_owner[1] = "c1"
    /\ gm_owner[1] = "c1" /\ gm_result[1] = ReplyListing({ HashOf(1) })
    /\ gm_owner[2] = "c1" /\ gm_file[2] = HashOf(1)
    /\ gm_result[2] = ReplyFile(MusicBytes(1))

\* C20 (process-start eviction): when the server starts to accept traffic
\* music_urls is empty and no file is stored; the file a previous run left
\* is never there, and every request that is sent bytes is sent the bytes of
\* an artifact stored since the start.
C20_StartEviction ==
    /\ music_urls = << >> /\ disk = << >>
    /\ [](/\ StaleHash \notin DOMAIN disk
          /\ \A g \in GetCalls :
                (gm_result[g] # NoReply /\ gm_result[g][1] = "file")
                => \E k \in StoreCalls :
                      /\ st_pc[k] # "idle"
                      /\ gm_result[g] = ReplyFile(MusicBytes(k)))

\* the file of the previous run was asked for and not found, while another
\* request was sent an artifact of this run
C20_Witness ==
    /\ LeftInTmp # << >>
    /\ \E g \in GetCalls : gm_file[g] = StaleHash /\ gm_result[g] = ReplyNotFound
    /\ \E g \in GetCalls : gm_result[g] # NoReply /\ gm_result[g][1] = "file"

\* the identifiers a request can name
Hashes == { StaleHash } \cup { HashOf(k) : k \in StoreCalls }
\* the identifiers the registry holds for owner
HeldFor(owner) ==
    { h \in Hashes : owner \in DOMAIN music_urls /\ h \in music_urls[owner] }

\* C21 (listing does not consume): a get_music request with an owner and no
\* identifier is answered at once with exactly the identifiers the registry
\* holds for that owner; it leaves the registry and the files as they were
\* and has no background task, and the file of every identifier listed is
\* there with the bytes stored, to be fetched.
C21_ListingDoesNotConsume ==
    /\ [][ \A g \in GetCalls :
             (gm_pc[g] = "idle" /\ gm_pc'[g] # "idle" /\ gm_file'[g] = NoFile)
             => /\ gm_pc'[g] = "done"
                /\ gm_result'[g] = ReplyListing(HeldFor(gm_owner'[g]))
                /\ music_urls' = music_urls /\ disk' = disk
                /\ \A h \in gm_result'[g][2] :
                      /\ h \in music_urls'[gm_owner'[g]]
                      /\ h \in DOMAIN disk'
                      /\ \E k \in StoreCalls : HashOf(k) = h /\ disk'[h] = MusicBytes(k) ]_vars
    /\ [](\A g \in GetCalls :
            (gm_pc[g] # "idle" /\ gm_file[g] = NoFile) => gm_cleanup[g] = "none")

\* two artifacts were stored for c1 and one for nobody else; a listing for c1
\* was answered with both, and the request that came next fetched the second
C21_Witness ==
    /\ st_pc[1] = "done" /\ st_pc[2] = "done"
    /\ st_owner[1] = "c1" /\ st_owner[2] = "c1"
    /\ gm_file[1] = NoFile
    /\ gm_result[1] = ReplyListing({ HashOf(1), HashOf(2) })
    /\ gm_owner[2] = "c1" /\ gm_file[2] = HashOf(2)
    /\ gm_result[2] = ReplyFile(MusicBytes(2))

\* no createmusicurl call has registered file under owner
NeverStored(owner, file) ==
    ~ \E k \in StoreCalls : st_pc[k] = "done" /\ st_owner[k] = owner /\ HashOf(k) = file
\* the background task of a request for (owner, file) has run
Consumed(owner, file) ==
    \E j \in GetCalls : gm_owner[j] = owner /\ gm_file[j] = file /\ gm_cleanup[j] # "none"

\* C22 (not-found is a value): a get_music request for an (owner, identifier)
\* that was never stored, or whose artifact was consumed, is answered at
\* once with the not-found result: nothing is raised, no background task is
\* added, and the registry and the files are left as they were.
C22_NotFoundIsAValue ==
    /\ [][ \A g \in GetCalls :
             (/\ gm_pc[g] = "idle" /\ gm_pc'[g] # "idle" /\ gm_file'[g] # NoFile
              /\ \/ NeverStored(gm_owner'[g], gm_file'[g])
                 \/ Consumed(gm_owner'[g], gm_file'[g]))
             => /\ gm_pc'[g] = "done"
                /\ gm_result'[g] = ReplyNotFound
                /\ music_urls' = music_urls /\ disk' = disk ]_vars
    /\ [](\A g \in GetCalls : gm_result[g] = ReplyNotFound => gm_cleanup[g] = "none")

\* a request of s1 for the artifact stored for c1 was answered not-found,
\* the artifact staying registered for c1; so was a request for the file a
\* previous run left
C22_Witness ==
    /\ st_pc[1] = "done" /\ st_owner[1] = "c1"
    /\ gm_owner[1] = "s1" /\ gm_file[1] = HashOf(1) /\ gm_result[1] = ReplyNotFound
    /\ gm_file[2] = StaleHash /\ gm_result[2] = ReplyNotFound
    /\ HashOf(1) \in music_urls["c1"]

\* C31 (owner scoping): a request is sent bytes only when its identifier
\* was stored for its own owner, and then the bytes of that artifact; a
\* request that names an identifier the registry holds for another owner
\* is answered not-found, and the registry and the files stay as they were.
C31_OwnerScoping ==
    /\ [](\A g \in GetCalls :
            (gm_result[g] # NoReply /\ gm_result[g][1] = "file")
            => \E k \in StoreCalls :
                  /\ st_pc[k] = "done"
                  /\ HashOf(k) = gm_file[g] /\ st_owner[k] = gm_owner[g]
                  /\ gm_result[g] = ReplyFile(MusicBytes(k)))
    /\ [][ \A g \in GetCalls :
             (/\ gm_pc[g] = "idle" /\ gm_pc'[g] # "idle" /\ gm_file'[g] # NoFile
              /\ \E o \in DOMAIN music_urls :
                    o # gm_owner'[g] /\ gm_file'[g] \in music_urls[o])
             => /\ gm_pc'[g] = "done"
                /\ gm_result'[g] = ReplyNotFound
                /\ music_urls' = music_urls /\ disk' = disk ]_vars

\* s1 asked for the artifact stored for c1 and was answered not-found; c1
\* asked for it next and was sent its bytes
C31_Witness ==
    /\ st_pc[1] = "done" /\ st_owner[1] = "c1"
    /\ gm_owner[1] = "s1" /\ gm_file[1] = HashOf(1) /\ gm_result[1] = ReplyNotFound
    /\ gm_owner[2] = "c1" /\ gm_file[2] = HashOf(1)
    /\ gm_result[2] = ReplyFile(MusicBytes(1))

\* C38 (results in generation order): the dispatch tasks being created in
\* the order the jobs were generated, of two music_generated events sent to
\* one sid the one of the earlier task is sent first.
C38_PushInGenerationOrder ==
    \A m1 \in pushed, m2 \in pushed :
        (/\ m1.to = m2.to
         /\ \E k1 \in StoreCalls, k2 \in StoreCalls :
               k1 < k2 /\ m1.file_id = HashOf(k1) /\ m2.file_id = HashOf(k2))
        => m1.seq < m2.seq

\* C36 (cleanup is safe to repeat): remove_file_and_entry never raises, also
\* when it is run for an entry that is no longer in the registry and an
\* owner that has no entries left, and no owner is mapped to an empty set.
C36_CleanupSafeToRepeat ==
    /\ \A g \in GetCalls : gm_cleanup[g] # "KeyError"
    /\ \A o \in DOMAIN music_urls : music_urls[o] # {}

(***************************************************************************)
(* Properties of the smoothing.                                            *)
(***************************************************************************)
\* the window of the example: happy 0.9, happy 0.8, sad 0.6, happy 0.7
ExampleWindow == << <<"happy", 90>>, <<"happy", 80>>, <<"sad", 60>>, <<"happy", 70>> >>

\* C13 (smoothing): the label is a label of the window counted at least as
\* often as every other, and the confidence is the mean of the scores (taken
\* in 0..1) of exactly the entries carrying that label, 0 for the empty
\* window; the example window gives happy with confidence 0.8.
C13_Smoothing ==
    /\ emotion_buffer = << >> => smoothed.confidence.num = 0
    /\ emotion_buffer # << >> =>
          /\ CountOf(emotion_buffer, smoothed.label) >= 1
          /\ \A i \in DOMAIN emotion_buffer :
                CountOf(emotion_buffer, smoothed.label) >= CountOf(emotion_buffer, emotion_buffer[i][1])
          /\ smoothed.confidence.num * 100 * CountOf(emotion_buffer, smoothed.label)
                = smoothed.confidence.den * SumScores(emotion_buffer, smoothed.label)
          /\ smoothed.confidence.den > 0
    /\ emotion_buffer = ExampleWindow =>
          /\ smoothed.label = "happy"
          /\ smoothed.confidence.num * 10 = smoothed.confidence.den * 8

\* the example window was smoothed
C13_Witness ==
    /\ emotion_buffer = ExampleWindow
    /\ smoothed = [ label |-> "happy", confidence |-> [ num |-> 240, den |-> 300 ] ]

\* the detections of the frames of sid, in the order they were appended
DetectionsOf(sid) ==
    LET own == SelectSeq(observed, LAMBDA o : o.sid = sid)
    IN  [ i \in DOMAIN own |-> own[i].detection ]
\* the detections of every frame, in the order they were appended
Arrived == [ i \in DOMAIN observed |-> observed[i].detection ]
\* the last n entries of seq, all of them when it has fewer
LastN(seq, n) ==
    IF Len(seq) <= n THEN seq ELSE SubSeq(seq, Len(seq) - n + 1, Len(seq))

\* C23 (bounded history): emotion_buffer never holds more than 10
\* observations: it holds the latest 10 that arrived (all of them while
\* fewer arrived), in arrival order, and an append to a buffer of 10 drops
\* its first entry, keeps the other nine in place and puts the new one last.
C23_BoundedHistory ==
    /\ [](Len(emotion_buffer) <= 10)
    /\ [](emotion_buffer = LastN(Arrived, 10))
    /\ [][ (Len(emotion_buffer) = 10 /\ observed' # observed)
           => /\ Len(emotion_buffer') = 10
              /\ \A i \in 1..9 : emotion_buffer'[i] = emotion_buffer[i + 1]
              /\ emotion_buffer'[10] = observed'[Len(observed')].detection ]_vars

\* an eleventh detection was appended to a buffer of ten that began with
\* two different detections: the first is gone, the second is now first
C23_Witness ==
    /\ Len(observed) = 11 /\ Len(emotion_buffer) = 10
    /\ observed[1].detection # observed[2].detection
    /\ emotion_buffer[1] = observed[2].detection
    /\ emotion_buffer[10] = observed[11].detection

\* the emotions counted most often in buffer
Modes(buffer) ==
    LET names == { buffer[i][1] : i \in DOMAIN buffer }
    IN  { e \in names : \A o \in names : CountOf(buffer, e) >= CountOf(buffer, o) }

\* C29 as claimed (tie-break): when two or more labels share the maximal
\* count of the window, the smoothed label is the one of them that was
\* appended most recently.
C29_TieMostRecent ==
    Cardinality(Modes(emotion_buffer)) >= 2
    => \A e \in Modes(emotion_buffer) \ { smoothed.label } :
          \E i \in DOMAIN emotion_buffer :
              /\ emotion_buffer[i][1] = smoothed.label
              /\ \A k \in DOMAIN emotion_buffer : emotion_buffer[k][1] = e => k < i

\* C29 as amended: the smoothed label is a label of maximal count, and when
\* two or more labels share the maximal count it is the one of them whose
\* first entry in the window is the oldest.
C29_TieFirstSeen ==
    emotion_buffer # << >>
    => /\ smoothed.label \in Modes(emotion_buffer)
       /\ \A e \in Modes(emotion_buffer) \ { smoothed.label } :
             \E i \in DOMAIN emotion_buffer :
                 /\ emotion_buffer[i][1] = smoothed.label
                 /\ \A k \in DOMAIN emotion_buffer : emotion_buffer[k][1] = e => i < k

\* sad, happy, sad, happy were appended in this order: two each, happy
\* appended last, sad first; the label is sad
C29_Witness ==
    /\ Len(emotion_buffer) = 4
    /\ emotion_buffer[1][1] = "sad" /\ emotion_buffer[2][1] = "happy"
    /\ emotion_buffer[3][1] = "sad" /\ emotion_buffer[4][1] = "happy"
    /\ smoothed.label = "sad"

\* C30 (per-stream smoothing): the label smoothed for a frame is the mode of
\* the latest detections of the frames of its own session, whatever frames
\* of other sessions were analysed in between.
C30_PerStreamSmoothing ==
    observed # << >>
    => smoothed.label
          = MostCommon(LastN(DetectionsOf(observed[Len(observed)].sid), BufferMaxLen))

(***************************************************************************)
(* Properties of the timed updates and of the update handler.              *)
(***************************************************************************)
IntervalOf(stage) == IF stage = "pre" THEN PreInterval ELSE PostInterval

\* C14 (emitter handoff): every update that comes due while the callback is
\* registered is handed on: the callback is scheduled on the event loop, to
\* send the message that ends in add_item.
C14_FireHandedOn ==
    \A i \in DOMAIN fire_log :
        fire_log[i].handoff # "no_callback" => fire_log[i].handoff = "scheduled"

\* C15 (the client's message): an emotion_update message made of the keys
\* emotion_dict and metadata is accepted by handle_emotion_update and ends
\* in add_item for the sending sid.
C15_ClientMessageQueued ==
    \A i \in DOMAIN update_log :
        DOMAIN update_log[i].data = {"emotion_dict", "metadata"}
        => update_log[i].result = "add_item"

\* C16 (rate limit): two updates of the same stage never come due less than
\* the interval of the stage apart.
C16_FiresApart ==
    \A i \in DOMAIN fire_log, j \in DOMAIN fire_log :
        (i < j /\ fire_log[i].stage = fire_log[j].stage)
        => fire_log[j].time - fire_log[i].time >= IntervalOf(fire_log[i].stage)

(***************************************************************************)
(* Properties of the LED controller.                                       *)
(***************************************************************************)
\* the calls of led_log that opened the connection
Opened(j) ==
    /\ led_log[j].op = "initialize_connection" /\ led_log[j].result = "ok"
\* the lines that the calls of led_log sent, in order
SentLines ==
    LET sent == SelectSeq(led_log, LAMBDA r : r.op = "update_led" /\ r.result = "sent") IN
    [ i \in DOMAIN sent |-> LedLine(sent[i].emotion) ]

\* C39 (the LED is written to only over an open connection and with a valid
\* emotion): every line on the link was sent by an update_led call with one
\* of EMOTIONS, made after an initialize_connection that succeeded and with
\* no close_connection in between; an update_led call made with the
\* connection closed or with another emotion writes nothing and changes no
\* field of the controller.
C39_LedWritesOnlyWhenOpenAndValid ==
    /\ [](/\ serial_written = SentLines
          /\ \A i \in DOMAIN led_log :
                (led_log[i].op = "update_led" /\ led_log[i].result # "ignored")
                => /\ led_log[i].emotion \in EMOTIONS
                   /\ \E j \in 1..(i - 1) :
                         /\ Opened(j)
                         /\ \A k \in (j + 1)..(i - 1) :
                               led_log[k].op # "close_connection")
    /\ [][ \A emotion \in LedInputs :
             (/\ led_log' = Append(led_log, [ op |-> "update_led", emotion |-> emotion,
                                              result |-> led_log'[Len(led_log')].result ])
              /\ (ser # "open" \/ emotion \notin EMOTIONS))
             => /\ serial_written' = serial_written
                /\ ser' = ser
                /\ reading_thread' = reading_thread
                /\ stop_reading_thread' = stop_reading_thread
                /\ led_log'[Len(led_log')].result = "ignored" ]_vars

\* the connection was opened, "happy" was sent and "error" was not; after
\* close_connection "happy" was not sent either
C39_Witness ==
    /\ Len(led_log) = 5
    /\ Opened(1)
    /\ led_log[2] = [ op |-> "update_led", emotion |-> "happy", result |-> "sent" ]
    /\ led_log[3] = [ op |-> "update_led", emotion |-> "error", result |-> "ignored" ]
    /\ led_log[4].op = "close_connection"
    /\ led_log[5] = [ op |-> "update_led", emotion |-> "happy", result |-> "ignored" ]
    /\ serial_written = << LedLine("happy") >>

====
